---------------------------- MODULE Spec2Model ----------------------------
(***************************************************************************)
(* A model of the buildkit solver core: the LLB marshaller that numbers    *)
(* exec outputs, the graph loader, the per-vertex single-flight solve, the *)
(* exec dispatch with its mutable outputs, and the job registry.           *)
(***************************************************************************)
EXTENDS Integers, Sequences, FiniteSets, TLC

(***************************************************************************)
(* Bounds of the model.                                                    *)
(***************************************************************************)
\* concurrent callers of Solver.Solve
NCallers == 2
\* longest submission handed to Load
MaxOps == 4

(***************************************************************************)
(* Program constants.                                                      *)
(***************************************************************************)
\* pb.SkipOutput: the mount declares no output (solver.go compares with -1)
SkipOutput == -1
\* pb.Empty: the input index of a scratch mount
Empty == -1

Callers == 1..NCallers
JobIds == {"j1", "j2"}
NoErr == <<"nil", 0>>

(***************************************************************************)
(* client/llb: exec.marshalTo.  An llb mount is [dest, dgst, index,        *)
(* hasOutput]: dgst and index name the output of the state it is mounted   *)
(* from (dgst 0 is the empty digest of a scratch source).                  *)
(***************************************************************************)
RECURSIVE SortByDest(_)
InsertByDest(m, s) ==
    LET k == Cardinality({i \in 1..Len(s) : s[i].dest < m.dest})
    IN  SubSeq(s, 1, k) \o <<m>> \o SubSeq(s, k + 1, Len(s))

\* sort.Slice(eo.mounts, dest[i] < dest[j])
SortByDest(ms) ==
    IF ms = <<>> THEN <<>> ELSE InsertByDest(Head(ms), SortByDest(Tail(ms)))

\* the index of the first input equal to (dgst, index), or len(inputs)
FindInput(inputs, dgst, index) ==
    LET hits == {i \in 1..Len(inputs) :
                    inputs[i].dgst = dgst /\ inputs[i].index = index}
    IN  IF hits = {} THEN Len(inputs)
        ELSE (CHOOSE i \in hits : \A j \in hits : i <= j) - 1

\* one turn of the loop over eo.mounts: acc is [inputs, mounts, outputIndex]
MarshalMount(acc, m) ==
    LET found == FindInput(acc.inputs, m.dgst, m.index)
        inputIndex == IF m.dgst = 0 THEN Empty ELSE found
        inputs == IF inputIndex = Len(acc.inputs)
                  THEN Append(acc.inputs, [dgst |-> m.dgst, index |-> m.index])
                  ELSE acc.inputs
        pm == [input  |-> inputIndex,
               dest   |-> m.dest,
               output |-> IF m.hasOutput THEN acc.outputIndex ELSE SkipOutput]
    IN  [inputs      |-> inputs,
         mounts      |-> Append(acc.mounts, pm),
         outputIndex |-> IF m.hasOutput THEN acc.outputIndex + 1
                         ELSE acc.outputIndex]

RECURSIVE MarshalLoop(_, _)
MarshalLoop(acc, ms) ==
    IF ms = <<>> THEN acc
    ELSE MarshalLoop(MarshalMount(acc, Head(ms)), Tail(ms))

\* a slip: the outputs are numbered in declaration order, the mounts are
\* emitted in destination order
marshalToUnsorted(mounts) ==
    LET numbered == MarshalLoop([inputs |-> <<>>, mounts |-> <<>>,
                                 outputIndex |-> 0], mounts)
        sorted == MarshalLoop([inputs |-> <<>>, mounts |-> <<>>,
                               outputIndex |-> 0], SortByDest(mounts))
        OutOf(d) == (CHOOSE i \in 1..Len(numbered.mounts) :
                        numbered.mounts[i].dest = d)
    IN  [inputs |-> sorted.inputs,
         mounts |-> [i \in 1..Len(sorted.mounts) |->
                       [sorted.mounts[i] EXCEPT
                          !.output = numbered.mounts[OutOf(sorted.mounts[i].dest)].output]]]

\* exec.marshalTo: the op's Inputs and the exec's Mounts
marshalTo(mounts) ==
    LET r == MarshalLoop([inputs |-> <<>>, mounts |-> <<>>, outputIndex |-> 0],
                         SortByDest(mounts))
    IN  [inputs |-> r.inputs, mounts |-> r.mounts]


(***************************************************************************)
(* The graphs handed to Solver.Solve.  A vertex is named by its digest     *)
(* (Load keeps one vertex per digest); kind is the op variant: "source",   *)
(* "exec", or "return" for the op without a body that mount.marshalTo      *)
(* appends last.  llb holds an exec's mounts as the client declared them,  *)
(* rin the single input of a return op.                                    *)
(***************************************************************************)
LM(dest, dgst, index, hasOutput) ==
    [dest |-> dest, dgst |-> dgst, index |-> index, hasOutput |-> hasOutput]

\* A <- B, A <- C, (B, C) <- D, D <- return
Diamond ==
    [kind |-> <<"source", "exec", "exec", "exec", "return">>,
     llb  |-> << <<>>,
                 <<LM(1, 1, 0, TRUE)>>,
                 <<LM(1, 1, 0, TRUE)>>,
                 <<LM(2, 3, 0, FALSE), LM(1, 2, 0, TRUE)>>,
                 <<>> >>,
     rin  |-> << <<>>, <<>>, <<>>, <<>>, <<[dgst |-> 4, index |-> 0]>> >>,
     root |-> 5]

\* an exec with two outputs, declared out of destination order, and a
\* read-only mount of the same input
TwoOutputs ==
    [kind |-> <<"source", "exec", "return">>,
     llb  |-> << <<>>,
                 <<LM(3, 1, 0, TRUE), LM(1, 1, 0, TRUE), LM(2, 1, 0, FALSE)>>,
                 <<>> >>,
     rin  |-> << <<>>, <<>>, <<[dgst |-> 2, index |-> 1]>> >>,
     root |-> 3]

\* an exec whose mounts are all read-only inputs, behind a return op
NoOutput ==
    [kind |-> <<"source", "exec", "return">>,
     llb  |-> << <<>>, <<LM(1, 1, 0, FALSE)>>, <<>> >>,
     rin  |-> << <<>>, <<>>, <<[dgst |-> 2, index |-> SkipOutput]>> >>,
     root |-> 3]

\* an exec op submitted as the root itself, with no return op behind it
ExecRoot ==
    [kind |-> <<"source", "exec">>,
     llb  |-> << <<>>, <<LM(1, 1, 0, TRUE)>> >>,
     rin  |-> << <<>>, <<>> >>,
     root |-> 2]

\* a lone source op
SourceRoot ==
    [kind |-> <<"source">>, llb |-> << <<>> >>, rin |-> << <<>> >>, root |-> 1]

\* a return op behind a return op: the inner one is solved and has no body
ReturnChain ==
    [kind |-> <<"source", "return", "return">>,
     llb  |-> << <<>>, <<>>, <<>> >>,
     rin  |-> << <<>>, <<[dgst |-> 1, index |-> 0]>>,
                 <<[dgst |-> 2, index |-> 0]>> >>,
     root |-> 3]

Graphs == {Diamond, TwoOutputs, NoOutput, ExecRoot, SourceRoot, ReturnChain}

VARIABLES
    graph,      \* the graph under solve
    vmu,        \* opVertex.mu: the task holding it, <<>> when free
    vrefs,      \* opVertex.refs
    verr,       \* opVertex.err
    invoked,    \* per vertex, how often its source pull or worker exec ran
    tasks,      \* the running and finished calls of opVertex.solve
    callers,    \* the calls of Solver.Solve
    jlrefs,     \* jobList.refs: id -> job
    delG,       \* the goroutines of jobList.new waiting for ctx.Done
    muts,       \* cache manager: the state of every mutable ref handed out
    commits,    \* per vertex, the mutables committed, in commit order
    relCount,   \* per immutable ref, how often Release was called on it
    ops,        \* Load: the blobs submitted
    loaded,     \* Load: its result, NotLoaded before the call
    getters,    \* the calls of jobList.get
    notify,     \* jobList.updateCond: the get calls blocked in Wait
    rlock,      \* jobList.mu: the get calls holding the read lock
    pipeSt,     \* the call of job.pipe
    handles,    \* progressReader.handles: the writers appended, in order
    writers,    \* per progressWriter: lastP, done, and the last return
    shLast,     \* per streamHandle: lastP, the event the reader saw last
    busCtx,     \* progressReader.ctx and the goroutine of pipe()
    reader,     \* the caller of progressReader.Read
    recs,       \* every cacheRecord made
    live,       \* cacheManager.records: the ids in the map
    hnd,        \* every immutableRef and mutableRef made
    leases,     \* LeaseManager: the lease ids
    mdstore,    \* metadata store: the ids that have an item
    lastUsed,   \* per record id, how often updateLastUsed stamped it
    cmret,      \* the last ref-store call and what it returned
    removals,   \* the goroutines of finalize that remove a dead mutable
    blobmd,     \* per record id, the blob descriptors of its metadata
    sizeSt,     \* the calls of cacheRecord.Size on one record
    lockSt      \* cm.mu and the record mutexes, and the threads using them

solverVars == <<graph, vmu, vrefs, verr, invoked, tasks, callers, jlrefs,
                delG, muts, commits, relCount>>
loadVars == <<ops, loaded>>
regVars == <<getters, notify, rlock>>
pipeVars == <<pipeSt>>
busVars == <<handles, writers, shLast, busCtx, reader>>
cacheVars == <<recs, live, hnd, leases, mdstore, lastUsed, cmret, removals,
               blobmd, sizeSt, lockSt>>
vars == <<graph, vmu, vrefs, verr, invoked, tasks, callers, jlrefs, delG,
          muts, commits, relCount, ops, loaded, regVars, pipeVars, busVars,
          cacheVars>>

\* the registry has no get call, no status pipe runs, there is no progress
\* bus and the ref store is not in use
NoGetters == getters = <<>> /\ notify = {} /\ rlock = {}
NoPipe == pipeSt = <<>>
NoBus ==
    /\ handles = <<>> /\ writers = <<>> /\ shLast = <<>>
    /\ busCtx = <<>> /\ reader = <<>>
NoCache ==
    /\ recs = <<>> /\ live = {} /\ hnd = <<>> /\ leases = {}
    /\ mdstore = {} /\ lastUsed = <<>> /\ cmret = <<>>
    /\ removals = {} /\ blobmd = <<>>
    /\ sizeSt = <<>> /\ lockSt = <<>>

\* the ops of a graph as the client marshals them: per vertex, op.Inputs
\* and, for an exec, Exec.Mounts
Marshalled(g) ==
    [kind |-> g.kind,
     llb  |-> g.llb,
     root |-> g.root,
     opInputs |-> [v \in 1..Len(g.kind) |->
                     CASE g.kind[v] = "exec"   -> marshalTo(g.llb[v]).inputs
                       [] g.kind[v] = "return" -> g.rin[v]
                       [] OTHER                -> <<>>],
     opMounts |-> [v \in 1..Len(g.kind) |->
                     IF g.kind[v] = "exec" THEN marshalTo(g.llb[v]).mounts
                     ELSE <<>>]]

Vertices == 1..Len(graph.kind)

\* g.op.Inputs
OpInputs(v) == graph.opInputs[v]

\* g.op.Op.(*pb.Op_Exec).Exec.Mounts
OpMounts(v) == graph.opMounts[v]

\* g.inputs: Load attaches the vertex of each input digest, in input order
Inputs(v) == [i \in 1..Len(OpInputs(v)) |-> OpInputs(v)[i].dgst]

(***************************************************************************)
(* solver: Load.  A blob is the bytes of one op; its digest is its place   *)
(* in the list of all blobs (digest.FromBytes is injective on them).  An   *)
(* op names its inputs by digest, and can only name blobs that come before *)
(* it in that list: a digest cannot contain itself.                        *)
(***************************************************************************)
Blob(kind, inputs, args) == [kind |-> kind, inputs |-> inputs, args |-> args]

Blobs ==
    << Blob("source", <<>>, 0),       \* A
       Blob("exec", <<1>>, 1),        \* B, on A
       Blob("exec", <<1>>, 2),        \* C, on A
       Blob("exec", <<2, 3>>, 3),     \* D, on B and C
       Blob("garbage", <<>>, 0) >>    \* bytes that are no op

BlobSet == {Blobs[i] : i \in 1..Len(Blobs)}

\* digest.FromBytes
FromBytes(dt) == CHOOSE i \in 1..Len(Blobs) : Blobs[i] = dt

\* (&op).Unmarshal(dt)
Unmarshal(dt) ==
    IF dt.kind = "garbage"
    THEN [err |-> <<"failed to parse op", 0>>, op |-> [kind |-> "", inputs |-> <<>>]]
    ELSE [err |-> NoErr, op |-> [kind |-> dt.kind, inputs |-> dt.inputs]]

NoVertex == 0
NotLoaded == [called |-> FALSE, heap |-> <<>>, vtx |-> NoVertex, err |-> NoErr]
EmptyLoad == [heap |-> <<>>, cache |-> [d \in {} |-> 0]]

RECURSIVE loadReqursive(_, _, _, _)
RECURSIVE LoadInputs(_, _, _, _)

\* a slip: an input that is not in the map is skipped
LoadInputsSkipMissing(id, i, inputs, st) ==
    LET ins == st.heap[id].op.inputs
    IN  IF i > Len(ins) THEN [st |-> st, err |-> NoErr]
        ELSE IF ins[i] \notin DOMAIN inputs
        THEN LoadInputs(id, i + 1, inputs, st)
        ELSE LET sub == loadReqursive(ins[i], inputs[ins[i]], inputs, st)
             IN  IF sub.err # NoErr THEN [st |-> sub.st, err |-> sub.err]
                 ELSE LoadInputs(id, i + 1, inputs,
                         [sub.st EXCEPT !.heap[id].inputs = Append(@, sub.vtx)])

\* the loop of loadReqursive over op.Inputs, from the i-th on, for the
\* vertex id under construction
LoadInputs(id, i, inputs, st) ==
    LET ins == st.heap[id].op.inputs
    IN  IF i > Len(ins) THEN [st |-> st, err |-> NoErr]
        ELSE IF ins[i] \notin DOMAIN inputs
        THEN [st |-> st, err |-> <<"failed to find", ins[i]>>]
        ELSE LET sub == loadReqursive(ins[i], inputs[ins[i]], inputs, st)
             IN  IF sub.err # NoErr THEN [st |-> sub.st, err |-> sub.err]
                 ELSE LoadInputs(id, i + 1, inputs,
                         [sub.st EXCEPT !.heap[id].inputs = Append(@, sub.vtx)])

\* a slip: the cache of materialized vertices is not consulted
loadNoCache(dgst, op, inputs, st) ==
    LET id == Len(st.heap) + 1
        st0 == [st EXCEPT !.heap =
                   Append(@, [dgst |-> dgst, op |-> op, inputs |-> <<>>])]
        r == LoadInputs(id, 1, inputs, st0)
    IN  IF r.err # NoErr
        THEN [st |-> r.st, vtx |-> NoVertex, err |-> r.err]
        ELSE [st |-> [r.st EXCEPT !.cache = (dgst :> id) @@ @],
              vtx |-> id, err |-> NoErr]

\* loadReqursive: st is the heap of vertices made so far and the cache map;
\* a vertex is [dgst, op, inputs], dgst being the digest it was made for
loadReqursive(dgst, op, inputs, st) ==
    IF dgst \in DOMAIN st.cache
    THEN [st |-> st, vtx |-> st.cache[dgst], err |-> NoErr]
    ELSE LET id == Len(st.heap) + 1
             st0 == [st EXCEPT !.heap =
                        Append(@, [dgst |-> dgst, op |-> op, inputs |-> <<>>])]
             r == LoadInputs(id, 1, inputs, st0)
         IN  IF r.err # NoErr
             THEN [st |-> r.st, vtx |-> NoVertex, err |-> r.err]
             ELSE [st |-> [r.st EXCEPT !.cache = (dgst :> id) @@ @],
                   vtx |-> id, err |-> NoErr]

\* the map m of Load: every blob but the last, by digest
InputMap(blobs) ==
    [d \in {FromBytes(blobs[i]) : i \in 1..(Len(blobs) - 1)} |->
        Unmarshal(Blobs[d]).op]

\* Load: the result is [heap, vtx, err]; with no blob at all lastOp is nil
\* and loadReqursive dereferences it
Load(blobs) ==
    IF \E i \in 1..Len(blobs) : Unmarshal(blobs[i]).err # NoErr
    THEN [heap |-> <<>>, vtx |-> NoVertex, err |-> <<"failed to parse op", 0>>]
    ELSE IF blobs = <<>>
    THEN [heap |-> <<>>, vtx |-> NoVertex, err |-> <<"nil pointer dereference", 0>>]
    ELSE LET last == blobs[Len(blobs)]
             r == loadReqursive(FromBytes(last), Unmarshal(last).op,
                                InputMap(blobs), EmptyLoad)
         IN  IF r.err # NoErr
             THEN [heap |-> <<>>, vtx |-> NoVertex, err |-> r.err]
             ELSE [heap |-> r.st.heap, vtx |-> r.vtx, err |-> NoErr]

(***************************************************************************)
(* Values.  An error is <<what, vertex>>; a ref is <<kind, vertex, dest,   *)
(* n>>: the ref a source pull returned, the mutable cm.New made for the    *)
(* mount at dest in the n-th run of the vertex, or the immutable that      *)
(* mutable was committed to.                                               *)
(***************************************************************************)
Err(what, v) == <<what, v>>
ErrExists == <<"id exists", 0>>
NilRef == <<"nil", 0, 0, 0>>
PanicRef == <<"index out of range", 0, 0, 0>>
PullRef(v, n) == <<"pull", v, 0, n>>
Mut(v, dest, n) == <<"mut", v, dest, n>>
Imm(o) == <<"imm", o[2], o[3], o[4]>>

Parent(t) == SubSeq(t, 1, Len(t) - 1)
Children(t) == {t \o <<i>> : i \in 1..Len(Inputs(tasks[t].v))}

NewTask(v) ==
    [v |-> v, pc |-> "start", ret |-> NoErr, egErr |-> NoErr, n |-> 0,
     outputs |-> <<>>, spawned |-> FALSE, dispatched |-> FALSE,
     cached |-> FALSE, events |-> <<>>]

\* how many earlier calls of solve on v got to notifyStarted; under g.mu
\* they have all returned, so g.vtx holds the stamps of the last of them
Runs(tk, v) ==
    Cardinality({k \in DOMAIN tk : tk[k].v = v /\ tk[k].events # <<>>})

\* pw.Write(id, value): the event is appended to what the call published
pwWrite(tk, t, id, value) ==
    [tk EXCEPT ![t].events =
        Append(@, [key |-> id, started |-> value.started,
                   completed |-> value.completed])]

\* the write goes out before g.vtx.Started is set
notifyStartedUnstamped(tk, t) ==
    LET v == tk[t].v
    IN  pwWrite(tk, t, v, [started |-> 0, completed |-> Runs(tk, v)])

\* opVertex.notifyStarted: g.vtx.Started = &now, and the write of g.vtx,
\* whose Completed is what an earlier run left there (0 for nil)
notifyStarted(tk, t) ==
    LET v == tk[t].v
    IN  pwWrite(tk, t, v, [started |-> Runs(tk, v) + 1,
                           completed |-> Runs(tk, v)])

\* opVertex.notifyCompleted, deferred: g.vtx.Completed = &now, and the write
notifyCompleted(tk, t) ==
    LET v == tk[t].v
        now == tk[t].events[1].started
    IN  pwWrite(tk, t, v, [started |-> now, completed |-> now])

\* opVertex.getInputRefForIndex
getInputRefForIndex(v, i) ==
    LET input == OpInputs(v)[i + 1]
        hits == {k \in 1..Len(Inputs(v)) : Inputs(v)[k] = input.dgst}
    IN  IF hits = {} THEN NilRef
        ELSE LET u == Inputs(v)[CHOOSE k \in hits : \A j \in hits : k <= j]
             IN  IF input.index + 1 \in 1..Len(vrefs[u])
                 THEN vrefs[u][input.index + 1]
                 ELSE PanicRef

\* the mounts of runExecOp's first loop that ask for an output, in mount order
OutputMounts(v) == SelectSeq(OpMounts(v), LAMBDA m : m.output # SkipOutput)

\* the head of opVertex.solve, under g.mu: a vertex with an error or with
\* refs answers at once
CachedIgnoringErr(v) ==
    IF Len(vrefs[v]) > 0 THEN [hit |-> TRUE, ret |-> NoErr]
    ELSE [hit |-> FALSE, ret |-> NoErr]

Cached(v) ==
    IF verr[v] # NoErr THEN [hit |-> TRUE, ret |-> verr[v]]
    ELSE IF Len(vrefs[v]) > 0 THEN [hit |-> TRUE, ret |-> NoErr]
    ELSE [hit |-> FALSE, ret |-> NoErr]

\* a goroutine of the errgroup returns: the group keeps its first error
Finish(tk, t, ret) ==
    LET t1 == [tk EXCEPT ![t].pc = "done", ![t].ret = ret]
    IN  IF Len(t) > 1
        THEN [t1 EXCEPT ![Parent(t)].egErr = IF @ = NoErr THEN ret ELSE @]
        ELSE t1

\* a slip: the mutex is not released
ReturnLocked(tk, t, ret) ==
    /\ tasks' = Finish(tk, t, ret)
    /\ verr' = [verr EXCEPT ![tasks[t].v] = IF ret # NoErr THEN ret ELSE @]
    /\ UNCHANGED vmu

\* the deferred g.err = retErr and g.mu.Unlock of opVertex.solve
Return(tk, t, ret) ==
    /\ tasks' = Finish(tk, t, ret)
    /\ verr' = [verr EXCEPT ![tasks[t].v] = IF ret # NoErr THEN ret ELSE @]
    /\ vmu' = [vmu EXCEPT ![tasks[t].v] = <<>>]

\* opVertex.solve up to eg.Go: lock, answer from the vertex, or fan out
SolveEnter(t) ==
    LET v == tasks[t].v
        c == Cached(v)
    IN  /\ tasks[t].pc = "start"
        /\ vmu[v] = <<>>
        /\ IF c.hit
           THEN /\ tasks' = Finish([tasks EXCEPT ![t].cached = TRUE], t, c.ret)
                /\ UNCHANGED vmu
           ELSE /\ vmu' = [vmu EXCEPT ![v] = t]
                /\ tasks' = [k \in Children(t) |-> NewTask(Inputs(v)[k[Len(k)]])]
                            @@ [tasks EXCEPT ![t].pc = "wait",
                                             ![t].spawned = Children(t) # {}]
        /\ UNCHANGED <<graph, vrefs, verr, invoked, callers, jlrefs, delG,
                       muts, commits, relCount, ops, loaded, regVars, pipeVars, busVars, cacheVars>>

\* a slip: the wait ends with the first goroutine that returns
EgDoneFirst(t) ==
    Children(t) = {} \/ \E k \in Children(t) : tasks[k].pc = "done"

\* eg.Wait
EgDone(t) == \A k \in Children(t) : tasks[k].pc = "done"

\* the deferred loop of runExecOp over the outputs still held: Freeze, and
\* Release of what Freeze returned; ff are the outputs whose Freeze fails
Cleanup(m, outs, ff) ==
    [o \in DOMAIN m |->
        IF \E i \in 1..Len(outs) : outs[i] = o
        THEN [m[o] EXCEPT !.state =
                 IF \E i \in ff : outs[i] = o THEN "freezeErr" ELSE "released"]
        ELSE m[o]]

\* the mutables of the first k mounts that declare an output
Allocated(v, n, k) ==
    [i \in 1..k |-> Mut(v, OutputMounts(v)[i].dest, n)]

NewMuts(v, outs) ==
    [o \in {outs[i] : i \in 1..Len(outs)} |->
        LET m == CHOOSE m \in {OpMounts(v)[j] : j \in 1..Len(OpMounts(v))} :
                    m.dest = o[3]
        IN  [state |-> "active", parent |-> getInputRefForIndex(v, m.input)]]

\* opVertex.solve after eg.Wait: the parents' error, or the dispatch on the
\* op.  runSourceOp goes on to Pull; runExecOp runs its mount loop, where
\* cm.New may fail at the f-th output, and goes on to w.Exec
SolveDispatch(t) ==
    LET v == tasks[t].v
        n == invoked[v] + 1
        started == notifyStarted(tasks, t)
    IN  /\ tasks[t].pc = "wait"
        /\ EgDone(t)
        /\ IF tasks[t].egErr # NoErr
           THEN /\ Return(tasks, t, tasks[t].egErr)
                /\ UNCHANGED <<invoked, muts>>
           ELSE CASE graph.kind[v] = "source" ->
                       \/ /\ Return(notifyCompleted(started, t), t,
                                    Err("bad identifier", v))
                          /\ UNCHANGED <<invoked, muts>>
                       \/ /\ tasks' = [started EXCEPT ![t].pc = "pull",
                                                      ![t].n = n,
                                                      ![t].dispatched = TRUE]
                          /\ invoked' = [invoked EXCEPT ![v] = n]
                          /\ UNCHANGED <<verr, vmu, muts>>
                  [] graph.kind[v] = "exec" ->
                       \E f \in 0..Len(OutputMounts(v)) :
                         IF f = 0
                         THEN LET outs == Allocated(v, n, Len(OutputMounts(v)))
                              IN  /\ tasks' = [started EXCEPT ![t].pc = "exec",
                                                  ![t].n = n, ![t].outputs = outs,
                                                  ![t].dispatched = TRUE]
                                  /\ invoked' = [invoked EXCEPT ![v] = n]
                                  /\ muts' = NewMuts(v, outs) @@ muts
                                  /\ UNCHANGED <<verr, vmu>>
                         ELSE LET outs == Allocated(v, n, f - 1)
                              IN  \E ff \in SUBSET (1..Len(outs)) :
                                    /\ muts' = Cleanup(NewMuts(v, outs) @@ muts,
                                                       outs, ff)
                                    /\ Return(notifyCompleted(
                                                  [started EXCEPT ![t].n = n],
                                                  t),
                                              t, Err("cm.New", v))
                                    /\ UNCHANGED invoked
                  [] OTHER ->
                       /\ Return(notifyCompleted(started, t), t,
                                 Err("invalid op type", v))
                       /\ UNCHANGED <<invoked, muts>>
        /\ UNCHANGED <<graph, vrefs, callers, jlrefs, delG, commits, relCount,
                       ops, loaded, regVars, pipeVars, busVars, cacheVars>>


\* runSourceOp: sm.Pull returns
PullReturn(t) ==
    LET v == tasks[t].v
    IN  /\ tasks[t].pc = "pull"
        /\ \/ /\ vrefs' = [vrefs EXCEPT ![v] = <<PullRef(v, tasks[t].n)>>]
              /\ Return(notifyCompleted(tasks, t), t, NoErr)
           \/ /\ Return(notifyCompleted(tasks, t), t, Err("pull", v))
              /\ UNCHANGED vrefs
        /\ UNCHANGED <<graph, invoked, callers, jlrefs, delG, muts, commits,
                       relCount, ops, loaded, regVars, pipeVars, busVars, cacheVars>>

\* the commit loop of runExecOp: the outputs are committed in the order of
\* the outputs list; cf is the output whose ReleaseAndCommit fails, 0 if none
\* a slip: outputs[i] is cleared before the commit is known to have succeeded
CommitLoopDropsFailed(outs, cf) ==
    LET k == IF cf = 0 THEN Len(outs) ELSE cf - 1
    IN  [done |-> SubSeq(outs, 1, k),
         left |-> SubSeq(outs, k + 2, Len(outs))]

\* done: the outputs committed, now nil in outputs; left: those still held
CommitLoop(outs, cf) ==
    LET k == IF cf = 0 THEN Len(outs) ELSE cf - 1
    IN  [done |-> SubSeq(outs, 1, k),
         left |-> SubSeq(outs, k + 1, Len(outs))]

Committed(m, done) ==
    [o \in DOMAIN m |->
        IF \E i \in 1..Len(done) : done[i] = o
        THEN [m[o] EXCEPT !.state = "committed"]
        ELSE m[o]]

\* runExecOp from the return of w.Exec on
ExecReturn(t) ==
    LET v == tasks[t].v
        outs == tasks[t].outputs
    IN  /\ tasks[t].pc = "exec"
        /\ \/ \E ff \in SUBSET (1..Len(outs)) :
                /\ muts' = Cleanup(muts, outs, ff)
                /\ Return(notifyCompleted(tasks, t), t,
                          Err("worker failed", v))
                /\ UNCHANGED <<vrefs, commits>>
           \/ \E cf \in 0..Len(outs) :
                LET r == CommitLoop(outs, cf)
                IN  /\ vrefs' = [vrefs EXCEPT
                                    ![v] = [i \in 1..Len(r.done) |-> Imm(r.done[i])]]
                    /\ commits' = [commits EXCEPT ![v] = @ \o r.done]
                    /\ \E ff \in SUBSET (1..Len(r.left)) :
                         muts' = Cleanup(Committed(muts, r.done), r.left, ff)
                    /\ Return(notifyCompleted(tasks, t), t,
                              IF cf = 0 THEN NoErr ELSE Err("error committing", v))
        /\ UNCHANGED <<graph, invoked, callers, jlrefs, delG, relCount, ops,
                       loaded, regVars, pipeVars, busVars, cacheVars>>


(***************************************************************************)
(* Solver.Solve and the job registry.                                      *)
(***************************************************************************)
\* the root is replaced by its single input only for a return op
UnwrapReturnOnly(g) ==
    IF Len(Inputs(g)) = 1 /\ graph.kind[g] = "return" THEN Inputs(g)[1] ELSE g

\* Solver.Solve: if len(g.inputs) > 0 { g = g.inputs[0] }
Unwrap(g) == IF Len(Inputs(g)) > 0 THEN Inputs(g)[1] ELSE g

\* a slip: the entry is overwritten and a second deletion is scheduled
jlNewOverwrite(refs, dg, ctx, id, g) ==
    [refs |-> (id :> [g |-> g, ctx |-> ctx]) @@ refs,
     delG |-> dg \cup {[id |-> id, ctx |-> ctx]},
     err  |-> IF id \in DOMAIN refs THEN ErrExists ELSE NoErr]

\* jobList.new, under jl.mu: the entry, and the goroutine that deletes it
\* once ctx is done
jlNew(refs, dg, ctx, id, g) ==
    IF id \in DOMAIN refs
    THEN [refs |-> refs, delG |-> dg, err |-> ErrExists]
    ELSE [refs |-> (id :> [g |-> g, ctx |-> ctx]) @@ refs,
          delG |-> dg \cup {[id |-> id, ctx |-> ctx]},
          err  |-> NoErr]

\* opVertex.release: the inputs first, then the vertex's own refs
RECURSIVE release(_)
release(g) ==
    LET RECURSIVE ins(_)
        ins(i) == IF i > Len(Inputs(g)) THEN <<>>
                  ELSE release(Inputs(g)[i]) \o ins(i + 1)
    IN  ins(1) \o vrefs[g]

Count(seq, x) == Cardinality({i \in 1..Len(seq) : seq[i] = x})

Released(rc, seq) ==
    [r \in DOMAIN rc \cup {seq[i] : i \in 1..Len(seq)} |->
        (IF r \in DOMAIN rc THEN rc[r] ELSE 0) + Count(seq, r)]

\* Solver.Solve up to g.solve
SolveCall(c, id) ==
    LET g == Unwrap(graph.root)
        r == jlNew(jlrefs, delG, c, id, g)
    IN  /\ callers[c].pc = "idle"
        /\ jlrefs' = r.refs
        /\ delG' = r.delG
        /\ IF r.err # NoErr
           THEN /\ callers' = [callers EXCEPT ![c] =
                      [pc |-> "returned", id |-> id, g |-> g, ret |-> r.err,
                       ctxDone |-> TRUE]]
                /\ UNCHANGED tasks
           ELSE /\ callers' = [callers EXCEPT ![c] =
                      [pc |-> "solving", id |-> id, g |-> g, ret |-> NoErr,
                       ctxDone |-> @.ctxDone]]
                /\ tasks' = (<<c>> :> NewTask(g)) @@ tasks
        /\ UNCHANGED <<graph, vmu, vrefs, verr, invoked, muts, commits,
                       relCount, ops, loaded, regVars, pipeVars, busVars, cacheVars>>

\* Solver.Solve from the return of g.solve on: g.release on success, and the
\* deferred cancel
SolveFinish(c) ==
    /\ callers[c].pc = "solving"
    /\ tasks[<<c>>].pc = "done"
    /\ callers' = [callers EXCEPT ![c].pc = "returned",
                                  ![c].ret = tasks[<<c>>].ret,
                                  ![c].ctxDone = TRUE]
    /\ relCount' = IF tasks[<<c>>].ret = NoErr
                   THEN Released(relCount, release(callers[c].g))
                   ELSE relCount
    /\ UNCHANGED <<graph, vmu, vrefs, verr, invoked, tasks, jlrefs, delG,
                   muts, commits, ops, loaded, regVars, pipeVars, busVars, cacheVars>>

\* a slip: the goroutine deletes without waiting for ctx.Done
JobDeleteEarly(d) ==
    /\ d \in delG
    /\ jlrefs' = [i \in DOMAIN jlrefs \ {d.id} |-> jlrefs[i]]
    /\ delG' = delG \ {d}
    /\ UNCHANGED <<graph, vmu, vrefs, verr, invoked, tasks, callers, muts,
                   commits, relCount, ops, loaded, regVars, pipeVars, busVars,
                   cacheVars>>

\* the goroutine of jobList.new: <-ctx.Done(), then delete(jl.refs, id)
JobDelete(d) ==
    /\ d \in delG
    /\ callers[d.ctx].ctxDone
    /\ jlrefs' = [i \in DOMAIN jlrefs \ {d.id} |-> jlrefs[i]]
    /\ delG' = delG \ {d}
    /\ UNCHANGED <<graph, vmu, vrefs, verr, invoked, tasks, callers, muts,
                   commits, relCount, ops, loaded, regVars, pipeVars, busVars, cacheVars>>

Init ==
    /\ graph \in {Marshalled(g) : g \in Graphs}
    /\ vmu = [v \in 1..Len(graph.kind) |-> <<>>]
    /\ vrefs = [v \in 1..Len(graph.kind) |-> <<>>]
    /\ verr = [v \in 1..Len(graph.kind) |-> NoErr]
    /\ invoked = [v \in 1..Len(graph.kind) |-> 0]
    /\ tasks = [t \in {} |-> 0]
    /\ callers = [c \in Callers |->
                    [pc |-> "idle", id |-> "", g |-> 0, ret |-> NoErr,
                     ctxDone |-> FALSE]]
    /\ jlrefs = [i \in {} |-> 0]
    /\ delG = {}
    /\ muts = [o \in {} |-> 0]
    /\ commits = [v \in 1..Len(graph.kind) |-> <<>>]
    /\ relCount = [r \in {} |-> 0]
    /\ ops = <<>>
    /\ loaded = NotLoaded
    /\ NoGetters /\ NoPipe /\ NoBus /\ NoCache

Next ==
    \/ \E c \in Callers, id \in JobIds : SolveCall(c, id)
    \/ \E t \in DOMAIN tasks : SolveEnter(t)
    \/ \E t \in DOMAIN tasks : SolveDispatch(t)
    \/ \E t \in DOMAIN tasks : PullReturn(t)
    \/ \E t \in DOMAIN tasks : ExecReturn(t)
    \/ \E c \in Callers : SolveFinish(c)
    \/ \E d \in delG : JobDelete(d)

Spec == Init /\ [][Next]_vars


(***************************************************************************)
(* The loader on its own: every submission of up to MaxOps blobs.          *)
(***************************************************************************)
RECURSIVE SeqsUpTo(_)
SeqsUpTo(n) ==
    IF n = 0 THEN {<<>>}
    ELSE LET shorter == SeqsUpTo(n - 1)
         IN  shorter \cup {Append(q, b) : q \in shorter, b \in BlobSet}

InitLoad ==
    /\ ops \in SeqsUpTo(MaxOps)
    /\ loaded = NotLoaded
    /\ graph = Marshalled(SourceRoot)
    /\ vmu = <<>> /\ vrefs = <<>> /\ verr = <<>> /\ invoked = <<>>
    /\ tasks = <<>> /\ callers = <<>> /\ jlrefs = <<>> /\ delG = {}
    /\ muts = <<>> /\ commits = <<>> /\ relCount = <<>>
    /\ NoGetters /\ NoPipe /\ NoBus /\ NoCache

\* control.Solve: solver.Load(req.Definition)
LoadCall ==
    /\ ~loaded.called
    /\ loaded' = [called |-> TRUE] @@ Load(ops)
    /\ UNCHANGED <<ops, graph, vmu, vrefs, verr, invoked, tasks, callers,
                   jlrefs, delG, muts, commits, relCount, regVars,
                   pipeVars, busVars, cacheVars>>

NextLoad == LoadCall

SpecLoad == InitLoad /\ [][NextLoad]_vars


\* the scheduler runs every goroutine that can take a step
LiveSpec == Spec /\ WF_vars(Next)

(***************************************************************************)
(* The job registry with its readers: jobList.new, jobList.get and the     *)
(* goroutines the two start.  Solver.Solve is cut down to its registry     *)
(* call and the cancel of its context.  jl.mu is a read-write lock: new    *)
(* and the deleting goroutine hold it for their whole body, get holds the  *)
(* read side from its first check until it blocks in Wait or returns.      *)
(***************************************************************************)
NGetters == 1

Getters == 1..NGetters

NoJob == [g |-> NoVertex, ctx |-> 0]

ErrNoSuchJob == <<"no such job", 0>>

\* a get call: its place in the code, its context.WithTimeout (armed, then
\* fired, then done once the goroutine has broadcast), and what it returned.
\* early records that new(id) succeeded while the call was under way and its
\* timeout had not fired.
IdleGetter ==
    [pc |-> "idle", id |-> "", timer |-> "off", ret |-> NoErr, job |-> NoJob,
     early |-> FALSE]

\* sync.Cond.Broadcast: every call blocked in Wait is made runnable
Broadcast(gs, waiting) ==
    [s \in DOMAIN gs |->
        IF s \in waiting THEN [gs[s] EXCEPT !.pc = "woken"] ELSE gs[s]]

\* jobList.get up to the go statement
GetCall(s, id) ==
    /\ getters[s].pc = "idle"
    /\ getters' = [getters EXCEPT ![s].pc = "rlock", ![s].id = id,
                                  ![s].timer = "armed"]
    /\ UNCHANGED <<notify, rlock, solverVars, loadVars, pipeVars, busVars,
                   cacheVars>>

\* jl.mu.RLock(), and the same lock taken again when Wait returns
GetRLock(s) ==
    /\ getters[s].pc \in {"rlock", "woken"}
    /\ getters' = [getters EXCEPT ![s].pc = "select"]
    /\ rlock' = rlock \cup {s}
    /\ UNCHANGED <<notify, solverVars, loadVars, pipeVars, busVars,
                   cacheVars>>

\* select { case <-ctx.Done(): return nil, "no such job"; default: }
GetSelect(s) ==
    /\ getters[s].pc = "select"
    /\ IF getters[s].timer # "armed"
       THEN /\ getters' = [getters EXCEPT ![s].pc = "returned",
                                         ![s].ret = ErrNoSuchJob]
            /\ rlock' = rlock \ {s}
       ELSE /\ getters' = [getters EXCEPT ![s].pc = "lookup"]
            /\ UNCHANGED rlock
    /\ UNCHANGED <<notify, solverVars, loadVars, pipeVars, busVars,
                   cacheVars>>

\* j, ok := jl.refs[id]; the return runs the deferred cancel of the timeout
GetLookup(s) ==
    /\ getters[s].pc = "lookup"
    /\ IF getters[s].id \in DOMAIN jlrefs
       THEN /\ getters' = [getters EXCEPT
                  ![s].pc = "returned",
                  ![s].job = jlrefs[getters[s].id],
                  ![s].timer = IF @ = "armed" THEN "fired" ELSE @]
            /\ rlock' = rlock \ {s}
       ELSE /\ getters' = [getters EXCEPT ![s].pc = "wait"]
            /\ UNCHANGED rlock
    /\ UNCHANGED <<notify, solverVars, loadVars, pipeVars, busVars,
                   cacheVars>>

\* jl.updateCond.Wait(): the call enters the notify list and only then
\* gives the read lock up
GetWait(s) ==
    /\ getters[s].pc = "wait"
    /\ getters' = [getters EXCEPT ![s].pc = "waiting"]
    /\ notify' = notify \cup {s}
    /\ rlock' = rlock \ {s}
    /\ UNCHANGED <<solverVars, loadVars, pipeVars, busVars, cacheVars>>

\* the two seconds of context.WithTimeout pass
TimerFire(s) ==
    /\ getters[s].timer = "armed"
    /\ getters' = [getters EXCEPT ![s].timer = "fired"]
    /\ UNCHANGED <<notify, rlock, solverVars, loadVars, pipeVars, busVars,
                   cacheVars>>

\* the goroutine of get: <-ctx.Done(), then jl.updateCond.Broadcast(),
\* with no lock held
TimerBroadcast(s) ==
    /\ getters[s].timer = "fired"
    /\ getters' = [Broadcast(getters, notify) EXCEPT ![s].timer = "done"]
    /\ notify' = {}
    /\ UNCHANGED <<rlock, solverVars, loadVars, pipeVars, busVars, cacheVars>>

\* a slip: new does not take jl.mu
JobsNewUnlocked(c, id) ==
    LET g == Unwrap(graph.root)
        r == jlNew(jlrefs, delG, c, id, g)
        ok == r.err = NoErr
    IN  /\ callers[c].pc = "idle"
        /\ jlrefs' = r.refs
        /\ delG' = r.delG
        /\ callers' = [callers EXCEPT ![c] =
              [pc |-> IF ok THEN "solving" ELSE "returned", id |-> id,
               g |-> g, ret |-> r.err, ctxDone |-> ~ok]]
        /\ getters' = IF ok THEN Broadcast(getters, notify) ELSE getters
        /\ notify' = IF ok THEN {} ELSE notify
        /\ UNCHANGED <<rlock, graph, vmu, vrefs, verr, invoked, tasks, muts,
                       commits, relCount, loadVars, pipeVars, busVars,
                       cacheVars>>

\* Solver.Solve up to the return of jobList.new, which runs under
\* jl.mu.Lock() and broadcasts when it has entered the job
JobsNew(c, id) ==
    LET g == Unwrap(graph.root)
        r == jlNew(jlrefs, delG, c, id, g)
        ok == r.err = NoErr
        woken == Broadcast(getters, notify)
    IN  /\ callers[c].pc = "idle"
        /\ rlock = {}
        /\ jlrefs' = r.refs
        /\ delG' = r.delG
        /\ callers' = [callers EXCEPT ![c] =
              [pc |-> IF ok THEN "solving" ELSE "returned", id |-> id,
               g |-> g, ret |-> r.err, ctxDone |-> ~ok]]
        /\ getters' =
              IF ok
              THEN [s \in Getters |->
                      IF /\ woken[s].id = id
                         /\ woken[s].pc \notin {"idle", "returned"}
                         /\ woken[s].timer = "armed"
                      THEN [woken[s] EXCEPT !.early = TRUE]
                      ELSE woken[s]]
              ELSE getters
        /\ notify' = IF ok THEN {} ELSE notify
        /\ UNCHANGED <<rlock, graph, vmu, vrefs, verr, invoked, tasks, muts,
                       commits, relCount, loadVars, pipeVars, busVars,
                       cacheVars>>

\* the context of the job is cancelled: Solver.Solve returns and its
\* deferred cancel runs, or the caller's context is cancelled
JobsCancel(c) ==
    /\ callers[c].pc = "solving"
    /\ callers' = [callers EXCEPT ![c].pc = "returned", ![c].ctxDone = TRUE]
    /\ UNCHANGED <<graph, vmu, vrefs, verr, invoked, tasks, jlrefs, delG,
                   muts, commits, relCount, loadVars, regVars, pipeVars,
                   busVars, cacheVars>>

\* the deleting goroutine, which needs jl.mu.Lock()
JobsDelete(d) == rlock = {} /\ JobDelete(d)

InitJobs ==
    /\ graph = Marshalled(SourceRoot)
    /\ callers = [c \in Callers |->
                    [pc |-> "idle", id |-> "", g |-> 0, ret |-> NoErr,
                     ctxDone |-> FALSE]]
    /\ jlrefs = [i \in {} |-> 0]
    /\ delG = {}
    /\ getters = [s \in Getters |-> IdleGetter]
    /\ notify = {}
    /\ rlock = {}
    /\ vmu = <<>> /\ vrefs = <<>> /\ verr = <<>> /\ invoked = <<>>
    /\ tasks = <<>> /\ muts = <<>> /\ commits = <<>> /\ relCount = <<>>
    /\ ops = <<>> /\ loaded = NotLoaded
    /\ NoPipe /\ NoBus /\ NoCache

GetStep(s) == GetRLock(s) \/ GetSelect(s) \/ GetLookup(s) \/ GetWait(s)

NextJobs ==
    \/ \E c \in Callers, id \in JobIds : JobsNew(c, id)
    \/ \E c \in Callers : JobsCancel(c)
    \/ \E d \in delG : JobsDelete(d)
    \/ \E s \in Getters, id \in JobIds : GetCall(s, id)
    \/ \E s \in Getters : GetRLock(s)
    \/ \E s \in Getters : GetSelect(s)
    \/ \E s \in Getters : GetLookup(s)
    \/ \E s \in Getters : GetWait(s)
    \/ \E s \in Getters : TimerFire(s)
    \/ \E s \in Getters : TimerBroadcast(s)

SpecJobs == InitJobs /\ [][NextJobs]_vars

\* the scheduler runs every goroutine that can take a step and time passes;
\* nothing makes a client call Solve or Status, or cancel
LiveJobs ==
    /\ SpecJobs
    /\ \A s \in Getters : WF_vars(GetStep(s))
    /\ \A s \in Getters : WF_vars(TimerFire(s))
    /\ \A s \in Getters : WF_vars(TimerBroadcast(s))
    /\ WF_vars(\E d \in delG : JobsDelete(d))

(***************************************************************************)
(* Solver.Status: job.pipe and walk.  A vertex's dgst is the digest of its *)
(* op, the key under which Load made it.  The reader of the progress bus   *)
(* is the environment of pipe: Read hands over a vertex event, an event of *)
(* another kind, the end of the stream, or the error of a done context.    *)
(***************************************************************************)
MaxEvents == 2

ErrCanceled == <<"context canceled", 0>>

\* walk without its cache: a vertex is sent once for every path to it
RECURSIVE walkSendNoCache(_, _)
walkSendNoCache(op, st) ==
    LET RECURSIVE ins(_, _)
        ins(i, s) == IF i > Len(Inputs(op)) THEN s
                     ELSE ins(i + 1, walkSendNoCache(Inputs(op)[i], s))
        after == ins(1, st)
    IN  [ch |-> Append(after.ch, op), cache |-> after.cache \cup {op}]

\* walk, the closure send: the inputs first, then op unless its dgst is in
\* the cache
RECURSIVE walkSend(_, _)
walkSend(op, st) ==
    LET RECURSIVE ins(_, _)
        ins(i, s) == IF i > Len(Inputs(op)) THEN s
                     ELSE ins(i + 1, walkSend(Inputs(op)[i], s))
        after == ins(1, st)
    IN  IF op \in after.cache THEN after
        ELSE [ch |-> Append(after.ch, op), cache |-> after.cache \cup {op}]

\* walk: the vertices in the order the channel delivers them
walk(op) == walkSend(op, [ch |-> <<>>, cache |-> {}]).ch

IdlePipe ==
    [pc |-> "idle", ch |-> <<>>, sent |-> <<>>, ctxDone |-> FALSE,
     ret |-> NoErr, n |-> 0]

\* Solver.Status: the job, then job.pipe up to the range over walk(j.g)
PipeCall(id) ==
    /\ pipeSt.pc = "idle"
    /\ id \in DOMAIN jlrefs
    /\ pipeSt' = [pipeSt EXCEPT !.pc = "walk", !.ch = walk(jlrefs[id].g)]
    /\ UNCHANGED <<solverVars, loadVars, regVars, busVars, cacheVars>>

\* one turn of the first loop: the select sends the status of the next
\* vertex or, the context being done, returns ctx.Err(); the loop ends when
\* the channel is closed
PipeWalk ==
    /\ pipeSt.pc = "walk"
    /\ \/ /\ pipeSt.ch # <<>>
          /\ pipeSt' = [pipeSt EXCEPT
                !.ch = Tail(@),
                !.sent = Append(@, [kind |-> "initial", v |-> Head(pipeSt.ch)])]
       \/ /\ pipeSt.ch # <<>>
          /\ pipeSt.ctxDone
          /\ pipeSt' = [pipeSt EXCEPT !.pc = "returned", !.ret = ErrCanceled]
       \/ /\ pipeSt.ch = <<>>
          /\ pipeSt' = [pipeSt EXCEPT !.pc = "read"]
    /\ UNCHANGED <<solverVars, loadVars, regVars, busVars, cacheVars>>

\* one turn of the second loop: pr.Read(ctx), then the select for a
\* client.Vertex
PipeRead ==
    /\ pipeSt.pc = "read"
    /\ \/ /\ pipeSt.ctxDone
          /\ pipeSt' = [pipeSt EXCEPT !.pc = "returned", !.ret = ErrCanceled]
       \/ pipeSt' = [pipeSt EXCEPT !.pc = "returned", !.ret = NoErr]
       \/ /\ pipeSt.n < MaxEvents
          /\ \E v \in Vertices :
                pipeSt' = [pipeSt EXCEPT
                    !.n = @ + 1,
                    !.sent = Append(@, [kind |-> "streamed", v |-> v])]
       \/ /\ pipeSt.n < MaxEvents
          /\ pipeSt' = [pipeSt EXCEPT !.n = @ + 1]
    /\ UNCHANGED <<solverVars, loadVars, regVars, busVars, cacheVars>>

\* the subscriber's context is cancelled
PipeCancel ==
    /\ pipeSt.pc \in {"walk", "read"}
    /\ ~pipeSt.ctxDone
    /\ pipeSt' = [pipeSt EXCEPT !.ctxDone = TRUE]
    /\ UNCHANGED <<solverVars, loadVars, regVars, busVars, cacheVars>>

\* a job is registered for the unwrapped root of each graph
InitPipe ==
    /\ graph \in {Marshalled(g) : g \in Graphs}
    /\ jlrefs = ("j1" :> [g |-> Unwrap(graph.root), ctx |-> 1])
    /\ pipeSt = IdlePipe
    /\ delG = {[id |-> "j1", ctx |-> 1]}
    /\ callers = <<>>
    /\ vmu = <<>> /\ vrefs = <<>> /\ verr = <<>> /\ invoked = <<>>
    /\ tasks = <<>> /\ muts = <<>> /\ commits = <<>> /\ relCount = <<>>
    /\ ops = <<>> /\ loaded = NotLoaded
    /\ NoGetters /\ NoBus /\ NoCache

NextPipe ==
    \/ \E id \in JobIds : PipeCall(id)
    \/ PipeWalk
    \/ PipeRead
    \/ PipeCancel

SpecPipe == InitPipe /\ [][NextPipe]_vars

(***************************************************************************)
(* util/progress: one progressReader with the writers made for it.  An     *)
(* event is a *Progress: two events are the same pointer when they come    *)
(* from the same Store, the n-th of writer w.  The reader's own context is *)
(* never cancelled.                                                        *)
(***************************************************************************)
NWriters == 2

MaxWrites == 2

Writers == 1..NWriters

Messages == {"a", "b"}

\* the nil *Progress
NilP == [w |-> 0, n |-> 0, msg |-> "", done |-> FALSE]

ErrClosedWriter == <<"writing to closed progresswriter", 0>>

\* interface conversion: interface {} is nil, not *progress.Progress
PanicNilLastP == <<"panic: interface conversion", 0>>

NoWriter ==
    [made |-> FALSE, lastP |-> NilP, done |-> FALSE, n |-> 0, call |-> "",
     ret |-> NoErr]

\* pr.cond.Broadcast(): the reader blocked in Wait is made runnable
CondBroadcast(r) == IF r.pc = "waiting" THEN [r EXCEPT !.pc = "woken"] ELSE r

\* the reader holds pr.mu from the top of Read's loop until it returns or
\* blocks in Wait
ReaderHoldsMu == reader.pc \in {"scan", "select", "wait"}

\* newWriter and progressReader.append: a writer made after the bus is
\* closed gets no handle
NewWriter(w) ==
    /\ ~writers[w].made
    /\ ~ReaderHoldsMu
    /\ writers' = [writers EXCEPT ![w].made = TRUE]
    /\ handles' = IF busCtx.done THEN handles ELSE Append(handles, w)
    /\ UNCHANGED <<shLast, busCtx, reader, solverVars, loadVars, regVars,
                   pipeVars, cacheVars>>

\* progressWriter.Write on the writer state ws: the state after the call,
\* and whether it broadcast
Write(ws, w, msg, dn) ==
    IF ws.done
    THEN [ws |-> [ws EXCEPT !.ret = ErrClosedWriter], bcast |-> FALSE]
    ELSE [ws |-> [ws EXCEPT
                    !.lastP = [w |-> w, n |-> ws.n + 1, msg |-> msg,
                               done |-> dn],
                    !.n = @ + 1,
                    !.done = dn,
                    !.ret = NoErr],
          bcast |-> TRUE]

\* pw.Write(p)
WriteCall(w, msg, dn) ==
    LET r == Write([writers[w] EXCEPT !.call = "Write"], w, msg, dn)
    IN  /\ writers[w].made
        /\ writers[w].n < MaxWrites
        /\ writers' = [writers EXCEPT ![w] = r.ws]
        /\ reader' = IF r.bcast THEN CondBroadcast(reader) ELSE reader
        /\ UNCHANGED <<handles, shLast, busCtx, solverVars, loadVars, regVars,
                       pipeVars, cacheVars>>

\* progressWriter.Done on the writer state ws: the type assertion on the
\* value of lastP.Load() panics when nothing was stored
Done(ws, w) ==
    IF ws.lastP = NilP
    THEN [ws |-> [ws EXCEPT !.ret = PanicNilLastP], bcast |-> FALSE]
    ELSE IF ws.lastP.done
         THEN [ws |-> [ws EXCEPT !.ret = NoErr], bcast |-> FALSE]
         ELSE Write(ws, w, ws.lastP.msg, TRUE)

\* pw.Done()
DoneCall(w) ==
    LET r == Done([writers[w] EXCEPT !.call = "Done"], w)
    IN  /\ writers[w].made
        /\ r.bcast => writers[w].n < MaxWrites
        /\ writers' = [writers EXCEPT ![w] = r.ws]
        /\ reader' = IF r.bcast THEN CondBroadcast(reader) ELSE reader
        /\ UNCHANGED <<handles, shLast, busCtx, solverVars, loadVars, regVars,
                       pipeVars, cacheVars>>

\* the cancel function pipe() returns
BusClose ==
    /\ ~busCtx.done
    /\ busCtx' = [busCtx EXCEPT !.done = TRUE]
    /\ UNCHANGED <<handles, writers, shLast, reader, solverVars, loadVars,
                   regVars, pipeVars, cacheVars>>

\* the goroutine of pipe(): <-ctx.Done(), then pr.cond.Broadcast(), with
\* pr.mu not held
BusCloseBroadcast ==
    /\ busCtx.done
    /\ ~busCtx.bcast
    /\ busCtx' = [busCtx EXCEPT !.bcast = TRUE]
    /\ reader' = CondBroadcast(reader)
    /\ UNCHANGED <<handles, writers, shLast, solverVars, loadVars, regVars,
                   pipeVars, cacheVars>>

\* Read up to pr.mu.Lock(), and the lock taken again when Wait returns
ReadCall ==
    /\ reader.pc \in {"idle", "woken"}
    /\ reader' = [reader EXCEPT !.pc = "scan"]
    /\ UNCHANGED <<handles, writers, shLast, busCtx, solverVars, loadVars,
                   regVars, pipeVars, cacheVars>>

\* streamHandle.next without the comparison with sh.lastP
HasNextAgain(w) == writers[w].lastP # NilP

\* streamHandle.next: the writer's latest event, if it is not the one this
\* handle returned last
HasNext(w) == writers[w].lastP # NilP /\ writers[w].lastP # shLast[w]

\* the loop over pr.handles: the first handle with a new event returns it;
\* with none, open tells whether some handle has seen no done event
ReadScan ==
    /\ reader.pc = "scan"
    /\ IF \E i \in 1..Len(handles) : HasNext(handles[i])
       THEN LET i == CHOOSE k \in 1..Len(handles) :
                        /\ HasNext(handles[k])
                        /\ \A m \in 1..(k - 1) : ~HasNext(handles[m])
                w == handles[i]
            IN  /\ shLast' = [shLast EXCEPT ![w] = writers[w].lastP]
                /\ reader' = [reader EXCEPT !.pc = "idle",
                                           !.out = writers[w].lastP,
                                           !.prev = shLast[w]]
       ELSE /\ reader' = [reader EXCEPT
                  !.pc = "select",
                  !.open = \E i \in 1..Len(handles) :
                              \/ shLast[handles[i]] = NilP
                              \/ ~shLast[handles[i]].done]
            /\ UNCHANGED shLast
    /\ UNCHANGED <<handles, writers, busCtx, solverVars, loadVars, regVars,
                   pipeVars, cacheVars>>

\* select { case <-pr.ctx.Done(): if !open { return nil, nil } ... }
ReadSelect ==
    /\ reader.pc = "select"
    /\ reader' = IF busCtx.done /\ ~reader.open
                 THEN [reader EXCEPT !.pc = "eos", !.out = NilP]
                 ELSE [reader EXCEPT !.pc = "wait"]
    /\ UNCHANGED <<handles, writers, shLast, busCtx, solverVars, loadVars,
                   regVars, pipeVars, cacheVars>>

\* pr.cond.Wait()
ReadWait ==
    /\ reader.pc = "wait"
    /\ reader' = [reader EXCEPT !.pc = "waiting"]
    /\ UNCHANGED <<handles, writers, shLast, busCtx, solverVars, loadVars,
                   regVars, pipeVars, cacheVars>>

ReadStep == ReadCall \/ ReadScan \/ ReadSelect \/ ReadWait

\* the state pipe() returns
InitBus ==
    /\ handles = <<>>
    /\ writers = [w \in Writers |-> NoWriter]
    /\ shLast = [w \in Writers |-> NilP]
    /\ busCtx = [done |-> FALSE, bcast |-> FALSE]
    /\ reader = [pc |-> "idle", open |-> FALSE, out |-> NilP,
                 prev |-> NilP]
    /\ graph = Marshalled(SourceRoot)
    /\ callers = <<>> /\ jlrefs = <<>> /\ delG = {}
    /\ vmu = <<>> /\ vrefs = <<>> /\ verr = <<>> /\ invoked = <<>>
    /\ tasks = <<>> /\ muts = <<>> /\ commits = <<>> /\ relCount = <<>>
    /\ ops = <<>> /\ loaded = NotLoaded
    /\ NoGetters /\ NoPipe /\ NoCache

NextBus ==
    \/ \E w \in Writers : NewWriter(w)
    \/ \E w \in Writers, msg \in Messages, dn \in BOOLEAN :
          WriteCall(w, msg, dn)
    \/ \E w \in Writers : DoneCall(w)
    \/ BusClose
    \/ BusCloseBroadcast
    \/ ReadCall
    \/ ReadScan
    \/ ReadSelect
    \/ ReadWait

SpecBus == InitBus /\ [][NextBus]_vars

\* the scheduler runs the reader, which calls Read again after every event,
\* and the goroutine of pipe(); nothing makes a writer write
LiveBus ==
    /\ SpecBus
    /\ WF_vars(ReadStep)
    /\ WF_vars(BusCloseBroadcast)

(***************************************************************************)
(* cache: the records and ref handles of the ref store.  A record is named *)
(* by its id, a handle (an *immutableRef or *mutableRef) by the order in   *)
(* which it was made; 0 is the nil pointer.  Every call runs under         *)
(* cm.mu, one at a time.  The metadata store, the lease manager and the    *)
(* snapshotter carry out what they are asked: their error returns are not  *)
(* modelled.  identity.NewID() yields an id no record has.                 *)
(***************************************************************************)
MaxRecs == 3

MaxHandles == 5

NoRef == 0

ErrInvalid == <<"invalid mutable ref", 0>>

ErrNotFound == <<"not found", 0>>

\* the ref store as one value
CacheState ==
    [recs |-> recs, live |-> live, hnd |-> hnd, leases |-> leases,
     mdstore |-> mdstore, lastUsed |-> lastUsed, removals |-> removals,
     blobmd |-> blobmd]

\* a cacheRecord as the manager or commit makes it
NewRecord(mutable, parent, equalMutable, mu, retain) ==
    [mutable |-> mutable, refs |-> {}, parent |-> parent, dead |-> FALSE,
     equalMutable |-> equalMutable, equalImmutable |-> NoRef, mu |-> mu,
     retain |-> retain]

\* cacheRecord.ref and cacheRecord.mref: a new handle in the ref set of r.
\* via tells which call made the handle, relRuns counts the runs of
\* release on it.
NewRef(st, r, triggerLastUsed, kind, via) ==
    [st EXCEPT
        !.hnd = Append(@, [rec |-> r, triggerLastUsed |-> triggerLastUsed,
                           kind |-> kind, via |-> via, released |-> FALSE,
                           relRuns |-> 0]),
        !.recs[r].refs = @ \cup {Len(st.hnd) + 1}]

\* the handles a caller of the ref store was given
CallerRefs == {h \in 1..Len(hnd) : hnd[h].via # "parent"}

\* immutableRef.updateLastUsedNow, after delete(sr.refs, sr): a slip that
\* does not look at the handle's own triggerLastUsed
updateLastUsedNowAny(st, h) ==
    \A x \in st.recs[st.hnd[h].rec].refs : ~st.hnd[x].triggerLastUsed

\* immutableRef.updateLastUsedNow
updateLastUsedNow(st, h) ==
    /\ st.hnd[h].triggerLastUsed
    /\ \A x \in st.recs[st.hnd[h].rec].refs : ~st.hnd[x].triggerLastUsed

RECURSIVE immutableRelease(_, _)
RECURSIVE mutableRelease(_, _)
RECURSIVE remove(_, _, _)

\* immutableRef.release
immutableRelease(st, h) ==
    LET r == st.hnd[h].rec
        em == st.recs[r].equalMutable
        s1 == [st EXCEPT !.recs[r].refs = @ \ {h}, !.hnd[h].relRuns = @ + 1]
        s2 == IF updateLastUsedNow(s1, h)
              THEN [s1 EXCEPT
                      !.lastUsed[r] = @ + 1,
                      !.hnd = IF em # NoRef
                              THEN [@ EXCEPT ![em].triggerLastUsed = TRUE]
                              ELSE @]
              ELSE s1
    IN  IF s2.recs[r].refs = {} /\ em # NoRef
        THEN mutableRelease(s2, em)
        ELSE s2

\* mutableRef.release without the look at the equal immutable's policy
mutableReleaseAnySibling(st, h) ==
    LET r == st.hnd[h].rec
        ei == st.recs[r].equalImmutable
        s1 == [st EXCEPT !.recs[r].refs = @ \ {h}, !.hnd[h].relRuns = @ + 1]
        stamped == IF s1.hnd[h].triggerLastUsed
                   THEN [s1 EXCEPT !.lastUsed[r] = @ + 1,
                                   !.hnd[h].triggerLastUsed = FALSE]
                   ELSE s1
    IN  IF ~s1.recs[r].retain
        THEN LET s2 == IF ei # NoRef
                       THEN remove(s1, s1.hnd[ei].rec, FALSE) ELSE s1
                 s3 == IF s2.recs[r].parent # NoRef
                       THEN immutableRelease(s2, s2.recs[r].parent)
                       ELSE s2
             IN  remove(s3, r, TRUE)
        ELSE stamped

\* mutableRef.release
mutableRelease(st, h) ==
    LET r == st.hnd[h].rec
        ei == st.recs[r].equalImmutable
        s1 == [st EXCEPT !.recs[r].refs = @ \ {h}, !.hnd[h].relRuns = @ + 1]
        stamped == IF s1.hnd[h].triggerLastUsed
                   THEN [s1 EXCEPT !.lastUsed[r] = @ + 1,
                                   !.hnd[h].triggerLastUsed = FALSE]
                   ELSE s1
    IN  IF ~s1.recs[r].retain
        THEN IF ei # NoRef /\ s1.recs[s1.hnd[ei].rec].retain
             THEN stamped
             ELSE LET s2 == IF ei # NoRef
                            THEN remove(s1, s1.hnd[ei].rec, FALSE) ELSE s1
                      s3 == IF s2.recs[r].parent # NoRef
                            THEN immutableRelease(s2, s2.recs[r].parent)
                            ELSE s2
                  IN  remove(s3, r, TRUE)
        ELSE stamped

\* cacheRecord.remove without the release of the parent handle
removeKeepsParent(st, r, removeSnapshot) ==
    LET s1 == [st EXCEPT !.live = @ \ {r}]
        s3 == IF removeSnapshot THEN [s1 EXCEPT !.leases = @ \ {r}] ELSE s1
    IN  [s3 EXCEPT !.mdstore = @ \ {r}]

\* cacheRecord.remove
remove(st, r, removeSnapshot) ==
    LET s1 == [st EXCEPT !.live = @ \ {r}]
        s2 == IF s1.recs[r].parent # NoRef
              THEN immutableRelease(s1, s1.recs[r].parent) ELSE s1
        s3 == IF removeSnapshot THEN [s2 EXCEPT !.leases = @ \ {r}] ELSE s2
    IN  [s3 EXCEPT !.mdstore = @ \ {r}]

\* cacheRecord.parentRef: a further handle on the parent's record
parentRef(st, r, hidden) ==
    IF st.recs[r].parent = NoRef THEN st
    ELSE NewRef(st, st.hnd[st.recs[r].parent].rec, hidden, "imm", "parent")

\* a slip: commit does not test the ref set
commitUnchecked(st, h) ==
    LET r == st.hnd[h].rec
        id == Len(st.recs) + 1
        s1 == parentRef(st, r, FALSE)
        p == IF st.recs[r].parent = NoRef THEN NoRef ELSE Len(s1.hnd)
        s2 == [s1 EXCEPT
                 !.recs = Append(@, NewRecord(FALSE, p, h, s1.recs[r].mu,
                                              FALSE)),
                 !.lastUsed = Append(@, 0),
                 !.live = @ \cup {id},
                 !.mdstore = @ \cup {id}]
        s3 == NewRef(s2, id, TRUE, "imm", "commit")
    IN  IF ~st.recs[r].mutable
        THEN [st |-> st, err |-> ErrInvalid, ref |-> NoRef]
        ELSE [st |-> [s3 EXCEPT !.recs[r].equalImmutable = Len(s3.hnd)],
              err |-> NoErr, ref |-> Len(s3.hnd)]

\* mutableRef.commit
commit(st, h) ==
    LET r == st.hnd[h].rec
        id == Len(st.recs) + 1
        s1 == parentRef(st, r, FALSE)
        p == IF st.recs[r].parent = NoRef THEN NoRef ELSE Len(s1.hnd)
        s2 == [s1 EXCEPT
                 !.recs = Append(@, NewRecord(FALSE, p, h, s1.recs[r].mu,
                                              FALSE)),
                 !.lastUsed = Append(@, 0),
                 !.live = @ \cup {id},
                 !.mdstore = @ \cup {id}]
        s3 == NewRef(s2, id, TRUE, "imm", "commit")
    IN  IF ~st.recs[r].mutable \/ st.recs[r].refs = {}
        THEN [st |-> st, err |-> ErrInvalid, ref |-> NoRef]
        ELSE [st |-> [s3 EXCEPT !.recs[r].equalImmutable = Len(s3.hnd)],
              err |-> NoErr, ref |-> Len(s3.hnd)]

\* the manager's New: a mutable record on top of the record of handle s
\* (NoRef for none), holding a handle of its own on that record, with a
\* lease and a metadata item under its id
cmNew(st, s, retain) ==
    LET id == Len(st.recs) + 1
        s1 == IF s = NoRef THEN st
              ELSE NewRef(st, st.hnd[s].rec, FALSE, "imm", "parent")
        p == IF s = NoRef THEN NoRef ELSE Len(s1.hnd)
        s2 == [s1 EXCEPT
                 !.recs = Append(@, NewRecord(TRUE, p, NoRef, id, retain)),
                 !.lastUsed = Append(@, 0),
                 !.live = @ \cup {id},
                 !.leases = @ \cup {id},
                 !.mdstore = @ \cup {id}]
    IN  NewRef(s2, id, TRUE, "mut", "new")

\* the manager's Get: a handle on a committed record of the live map
cmGet(st, id) ==
    IF id \in st.live /\ ~st.recs[id].mutable
    THEN [st |-> NewRef(st, id, TRUE, "imm", "get"), err |-> NoErr]
    ELSE [st |-> st, err |-> ErrNotFound]

\* the frame of every ref-store call
SetCache(st, ret) ==
    /\ recs' = st.recs
    /\ live' = st.live
    /\ hnd' = st.hnd
    /\ leases' = st.leases
    /\ mdstore' = st.mdstore
    /\ lastUsed' = st.lastUsed
    /\ removals' = st.removals
    /\ blobmd' = st.blobmd
    /\ cmret' = ret
    /\ UNCHANGED <<sizeSt, lockSt, solverVars, loadVars, regVars, pipeVars,
                   busVars>>

NewCall(s, retain) ==
    /\ Len(recs) < MaxRecs
    /\ Len(hnd) + (IF s = NoRef THEN 1 ELSE 2) <= MaxHandles
    /\ s # NoRef =>
          /\ s \in CallerRefs /\ ~hnd[s].released /\ hnd[s].kind = "imm"
          /\ recs[hnd[s].rec].equalMutable = NoRef
    /\ LET st == cmNew(CacheState, s, retain)
       IN  SetCache(st, [op |-> "New", h |-> s, err |-> NoErr,
                         ref |-> Len(st.hnd)])

CmGetCall(id) ==
    /\ Len(hnd) < MaxHandles
    /\ LET r == cmGet(CacheState, id)
       IN  SetCache(r.st, [op |-> "Get", h |-> NoRef, err |-> r.err,
                           ref |-> IF r.err = NoErr THEN Len(r.st.hnd)
                                   ELSE NoRef])

\* immutableRef.Clone
CloneCall(h) ==
    /\ Len(hnd) < MaxHandles
    /\ h \in CallerRefs /\ ~hnd[h].released /\ hnd[h].kind = "imm"
    /\ LET st == NewRef(CacheState, hnd[h].rec, FALSE, "imm", "clone")
       IN  SetCache(st, [op |-> "Clone", h |-> h, err |-> NoErr,
                         ref |-> Len(st.hnd)])

\* immutableRef.Release and mutableRef.Release
ReleaseCall(h) ==
    /\ h \in CallerRefs /\ ~hnd[h].released
    /\ LET st == IF hnd[h].kind = "imm"
                 THEN immutableRelease(CacheState, h)
                 ELSE mutableRelease(CacheState, h)
       IN  SetCache([st EXCEPT !.hnd[h].released = TRUE],
                    [op |-> "Release", h |-> h, err |-> NoErr, ref |-> NoRef])

\* mutableRef.Commit
CommitCall(h) ==
    /\ Len(recs) < MaxRecs
    /\ Len(hnd) + 2 <= MaxHandles
    /\ h \in CallerRefs /\ hnd[h].kind = "mut"
    /\ LET r == commit(CacheState, h)
       IN  SetCache(r.st, [op |-> "Commit", h |-> h, err |-> r.err,
                           ref |-> r.ref])

\* a store holding one committed, finalized record that nobody refers to
InitCache ==
    /\ recs = <<NewRecord(FALSE, NoRef, NoRef, 1, FALSE)>>
    /\ live = {1}
    /\ hnd = <<>>
    /\ leases = {1}
    /\ mdstore = {1}
    /\ lastUsed = <<0>>
    /\ cmret = [op |-> "", h |-> NoRef, err |-> NoErr, ref |-> NoRef]
    /\ removals = {} /\ blobmd = <<>>
    /\ sizeSt = <<>> /\ lockSt = <<>>
    /\ graph = Marshalled(SourceRoot)
    /\ callers = <<>> /\ jlrefs = <<>> /\ delG = {}
    /\ vmu = <<>> /\ vrefs = <<>> /\ verr = <<>> /\ invoked = <<>>
    /\ tasks = <<>> /\ muts = <<>> /\ commits = <<>> /\ relCount = <<>>
    /\ ops = <<>> /\ loaded = NotLoaded
    /\ NoGetters /\ NoPipe /\ NoBus

NextCache ==
    \/ \E s \in {NoRef} \cup (1..Len(hnd)), retain \in BOOLEAN :
          NewCall(s, retain)
    \/ \E id \in 1..Len(recs) : CmGetCall(id)
    \/ \E h \in 1..Len(hnd) : CloneCall(h)
    \/ \E h \in 1..Len(hnd) : ReleaseCall(h)
    \/ \E h \in 1..Len(hnd) : CommitCall(h)

SpecCache == InitCache /\ [][NextCache]_vars

(***************************************************************************)
(* cache policy: the caller of the ref store marks the record of a handle  *)
(* it holds as retained (CachePolicyRetain on the record's metadata, the   *)
(* call finalize makes at refs.go:382).                                    *)
(***************************************************************************)
CachePolicyRetainCall(h) ==
    /\ h \in CallerRefs /\ ~hnd[h].released
    /\ ~recs[hnd[h].rec].retain
    /\ SetCache([CacheState EXCEPT !.recs[hnd[h].rec].retain = TRUE],
                [op |-> "Retain", h |-> h, err |-> NoErr, ref |-> NoRef])

NextPolicy ==
    \/ NextCache
    \/ \E h \in 1..Len(hnd) : CachePolicyRetainCall(h)

SpecPolicy == InitCache /\ [][NextPolicy]_vars

(***************************************************************************)
(* blob descriptors: immutableRef.SetBlob on a chain of records.  A digest *)
(* is a tuple, the empty digest the empty tuple; the chain id of two       *)
(* digests is the pair of them, so that different pairs give different     *)
(* chain ids.  The content store knows the blobs of KnownBlobs.            *)
(***************************************************************************)
NoDigest == <<>>

DiffIDs == {<<"d0">>, <<"d1">>}

KnownBlobs == {<<"b0">>, <<"b1">>}

BlobInputs == KnownBlobs \cup {<<"bx">>}

ErrBlobNotFound == <<"content not found", 0>>

ErrNonAddressable == <<"non-addressable parent", 0>>

\* imagespaceidentity.ChainID of two digests
ChainID(a, b) == <<"chain", a, b>>

\* the descriptors of a record that SetBlob has not set
NoInfo ==
    [chainID |-> NoDigest, diffID |-> NoDigest, blob |-> NoDigest,
     blobChainID |-> NoDigest]

\* immutableRef.Info
Info(st, r) == IF r \in DOMAIN st.blobmd THEN st.blobmd[r] ELSE NoInfo

\* cacheRecord.finalize: with commit, the snapshot of the equal mutable is
\* committed under the record's id, the mutable is marked dead and left to
\* a goroutine to remove, the record gets a lease of its own and forgets
\* the mutable
finalize(st, r, withCommit) ==
    LET m == st.recs[r].equalMutable
    IN  IF m = NoRef \/ ~withCommit
        THEN st
        ELSE [st EXCEPT !.recs[st.hnd[m].rec].dead = TRUE,
                        !.removals = @ \cup {st.hnd[m].rec},
                        !.leases = @ \cup {r},
                        !.recs[r].equalMutable = NoRef]

\* immutableRef.SetBlob without the return on a chain id that is set
SetBlobOverwrites(st, h, diffID, blob) ==
    LET r == st.hnd[h].rec
        s1 == finalize(st, r, TRUE)
        p == s1.recs[r].parent
        pInfo == IF p = NoRef THEN NoInfo ELSE Info(s1, s1.hnd[p].rec)
        bc == ChainID(blob, diffID)
        chainID == IF pInfo.chainID # NoDigest
                   THEN ChainID(pInfo.chainID, diffID) ELSE diffID
        blobChainID == IF pInfo.chainID # NoDigest
                       THEN ChainID(pInfo.blobChainID, bc) ELSE bc
    IN  IF blob \notin KnownBlobs
        THEN [st |-> st, err |-> ErrBlobNotFound]
        ELSE IF p # NoRef /\ (\/ pInfo.chainID = NoDigest
                              \/ pInfo.blobChainID = NoDigest)
        THEN [st |-> s1, err |-> ErrNonAddressable]
        ELSE [st |-> [s1 EXCEPT !.blobmd =
                        (r :> [chainID |-> chainID, diffID |-> diffID,
                               blob |-> blob,
                               blobChainID |-> blobChainID]) @@ @],
              err |-> NoErr]

\* immutableRef.SetBlob
SetBlob(st, h, diffID, blob) ==
    LET r == st.hnd[h].rec
        s1 == finalize(st, r, TRUE)
        p == s1.recs[r].parent
        pInfo == IF p = NoRef THEN NoInfo ELSE Info(s1, s1.hnd[p].rec)
        bc == ChainID(blob, diffID)
        chainID == IF pInfo.chainID # NoDigest
                   THEN ChainID(pInfo.chainID, diffID) ELSE diffID
        blobChainID == IF pInfo.chainID # NoDigest
                       THEN ChainID(pInfo.blobChainID, bc) ELSE bc
    IN  IF blob \notin KnownBlobs
        THEN [st |-> st, err |-> ErrBlobNotFound]
        ELSE IF Info(st, r).chainID # NoDigest
        THEN [st |-> st, err |-> NoErr]
        ELSE IF p # NoRef /\ (\/ pInfo.chainID = NoDigest
                              \/ pInfo.blobChainID = NoDigest)
        THEN [st |-> s1, err |-> ErrNonAddressable]
        ELSE [st |-> [s1 EXCEPT !.blobmd =
                        (r :> [chainID |-> chainID, diffID |-> diffID,
                               blob |-> blob,
                               blobChainID |-> blobChainID]) @@ @],
              err |-> NoErr]

SetBlobCall(h, diffID, blob) ==
    /\ h \in CallerRefs /\ ~hnd[h].released /\ hnd[h].kind = "imm"
    /\ LET r == SetBlob(CacheState, h, diffID, blob)
       IN  SetCache(r.st, [op |-> "SetBlob", h |-> h, err |-> r.err,
                           ref |-> NoRef])

\* immutableRef.Finalize
FinalizeCall(h, withCommit) ==
    /\ h \in CallerRefs /\ ~hnd[h].released /\ hnd[h].kind = "imm"
    /\ SetCache(finalize(CacheState, hnd[h].rec, withCommit),
                [op |-> "Finalize", h |-> h, err |-> NoErr, ref |-> NoRef])

\* the goroutine of finalize ending with the dead mutable left in place
FinalizeRemoveSkips(r) ==
    /\ r \in removals
    /\ SetCache([CacheState EXCEPT !.removals = @ \ {r}], cmret)

\* the goroutine of finalize: cm.mu.Lock(); mutable.remove(ctx, true)
FinalizeRemove(r) ==
    /\ r \in removals
    /\ SetCache([remove(CacheState, r, TRUE) EXCEPT !.removals = @ \ {r}],
                cmret)

\* a root record and, on top of it, a record committed from a mutable and
\* not finalized yet; the caller holds a handle on each of the two
BlobChain ==
    LET s0 == [recs |-> <<NewRecord(FALSE, NoRef, NoRef, 1, FALSE)>>,
               live |-> {1}, hnd |-> <<>>, leases |-> {1}, mdstore |-> {1},
               lastUsed |-> <<0>>, removals |-> {}, blobmd |-> <<>>]
        s1 == cmGet(s0, 1).st
        s2 == cmNew(s1, 1, FALSE)
    IN  commit(s2, Len(s2.hnd)).st

InitBlob ==
    /\ recs = BlobChain.recs
    /\ live = BlobChain.live
    /\ hnd = BlobChain.hnd
    /\ leases = BlobChain.leases
    /\ mdstore = BlobChain.mdstore
    /\ lastUsed = BlobChain.lastUsed
    /\ removals = {} /\ blobmd = <<>>
    /\ sizeSt = <<>> /\ lockSt = <<>>
    /\ cmret = [op |-> "", h |-> NoRef, err |-> NoErr, ref |-> NoRef]
    /\ graph = Marshalled(SourceRoot)
    /\ callers = <<>> /\ jlrefs = <<>> /\ delG = {}
    /\ vmu = <<>> /\ vrefs = <<>> /\ verr = <<>> /\ invoked = <<>>
    /\ tasks = <<>> /\ muts = <<>> /\ commits = <<>> /\ relCount = <<>>
    /\ ops = <<>> /\ loaded = NotLoaded
    /\ NoGetters /\ NoPipe /\ NoBus

NextBlob ==
    \/ \E h \in 1..Len(hnd), d \in DiffIDs, b \in BlobInputs :
          SetBlobCall(h, d, b)
    \/ \E h \in 1..Len(hnd), c \in BOOLEAN : FinalizeCall(h, c)
    \/ \E r \in removals : FinalizeRemove(r)
    \/ \E h \in 1..Len(hnd) : ReleaseCall(h)

SpecBlob == InitBlob /\ [][NextBlob]_vars

(***************************************************************************)
(* size: the calls of cacheRecord.Size on one record.  sizeG.Do lets one   *)
(* call of the function run per key: a caller that arrives while it runs   *)
(* waits for it and gets what it returns.  The function runs in three      *)
(* steps, with cr.mu released between them.                                *)
(***************************************************************************)
NSizers == 2

MaxSizeCalls == 2

Sizers == 1..NSizers

sizeUnknown == -1

\* what Snapshotter.Usage can answer: a size, or an error for a record
\* that isDead() or is not
UsageResults == {<<"size", 4>>, <<"size", 8>>, <<"dead", 0>>, <<"err", 0>>}

ErrUsage == <<"failed to get usage", 0>>

NoFlight ==
    [on |-> FALSE, pc |-> "", v |-> sizeUnknown, members |-> {},
     res |-> [s |-> sizeUnknown, err |-> NoErr]]

sizeFrame ==
    <<recs, live, hnd, leases, mdstore, lastUsed, cmret, removals, blobmd,
      lockSt, solverVars, loadVars, regVars, pipeVars, busVars>>

\* cr.sizeG.Do(ctx, cr.ID(), fn): the caller starts the function or waits
\* for the one that runs.  saw and q0 note the size in the metadata and
\* the number of usage queries at the time of the call.
SizeCall(t) ==
    /\ sizeSt.thr[t].pc = "idle"
    /\ sizeSt.thr[t].n < MaxSizeCalls
    /\ sizeSt' = [sizeSt EXCEPT
          !.thr[t] = [@ EXCEPT !.pc = "wait", !.n = @ + 1,
                               !.saw = sizeSt.size,
                               !.q0 = sizeSt.queries],
          !.fl = IF sizeSt.fl.on
                 THEN [@ EXCEPT !.members = @ \cup {t}]
                 ELSE [NoFlight EXCEPT !.on = TRUE, !.pc = "start",
                                       !.members = {t}]]
    /\ UNCHANGED sizeFrame

\* the function up to the usage query, without the look at the size in
\* the metadata
FnStartAsks ==
    /\ sizeSt.fl.on /\ sizeSt.fl.pc = "start"
    /\ sizeSt' = [sizeSt EXCEPT !.fl.pc = "usage",
                                !.inflight = @ + 1,
                                !.queries = @ + 1]
    /\ UNCHANGED sizeFrame

\* the function up to the usage query: a size found in the metadata is
\* returned
FnStart ==
    /\ sizeSt.fl.on /\ sizeSt.fl.pc = "start"
    /\ sizeSt' = IF sizeSt.size # sizeUnknown
                 THEN [sizeSt EXCEPT
                         !.fl.pc = "end",
                         !.fl.res = [s |-> sizeSt.size, err |-> NoErr]]
                 ELSE [sizeSt EXCEPT !.fl.pc = "usage",
                                     !.inflight = @ + 1,
                                     !.queries = @ + 1]
    /\ UNCHANGED sizeFrame

\* Snapshotter.Usage returns
FnUsage(u) ==
    /\ sizeSt.fl.on /\ sizeSt.fl.pc = "usage"
    /\ sizeSt' = [sizeSt EXCEPT
          !.inflight = @ - 1,
          !.fl = IF u[1] = "size"
                 THEN [@ EXCEPT !.pc = "store", !.v = u[2]]
                 ELSE [@ EXCEPT
                         !.pc = "end",
                         !.res = IF u[1] = "dead"
                                 THEN [s |-> 0, err |-> NoErr]
                                 ELSE [s |-> sizeUnknown, err |-> ErrUsage]]]
    /\ UNCHANGED sizeFrame

\* setSize(cr.md, usage.Size) and the return of the function
FnStore ==
    /\ sizeSt.fl.on /\ sizeSt.fl.pc = "store"
    /\ sizeSt' = [sizeSt EXCEPT
          !.size = sizeSt.fl.v,
          !.fl.pc = "end",
          !.fl.res = [s |-> sizeSt.fl.v, err |-> NoErr]]
    /\ UNCHANGED sizeFrame

\* Do returns to every caller of this run what the function returned
FlightEnd ==
    /\ sizeSt.fl.on /\ sizeSt.fl.pc = "end"
    /\ sizeSt' = [sizeSt EXCEPT
          !.thr = [t \in Sizers |->
                     IF t \in sizeSt.fl.members
                     THEN [@[t] EXCEPT !.pc = "idle", !.ret = sizeSt.fl.res]
                     ELSE @[t]],
          !.fl = NoFlight]
    /\ UNCHANGED sizeFrame

\* a record whose size is not known, and nobody asking
InitSize ==
    /\ sizeSt = [thr |-> [t \in Sizers |->
                            [pc |-> "idle", n |-> 0, saw |-> sizeUnknown,
                             q0 |-> 0,
                             ret |-> [s |-> sizeUnknown, err |-> NoErr]]],
                 fl |-> NoFlight, size |-> sizeUnknown, inflight |-> 0,
                 queries |-> 0]
    /\ lockSt = <<>>
    /\ recs = <<>> /\ live = {} /\ hnd = <<>> /\ leases = {}
    /\ mdstore = {} /\ lastUsed = <<>> /\ cmret = <<>>
    /\ removals = {} /\ blobmd = <<>>
    /\ graph = Marshalled(SourceRoot)
    /\ callers = <<>> /\ jlrefs = <<>> /\ delG = {}
    /\ vmu = <<>> /\ vrefs = <<>> /\ verr = <<>> /\ invoked = <<>>
    /\ tasks = <<>> /\ muts = <<>> /\ commits = <<>> /\ relCount = <<>>
    /\ ops = <<>> /\ loaded = NotLoaded
    /\ NoGetters /\ NoPipe /\ NoBus

NextSize ==
    \/ \E t \in Sizers : SizeCall(t)
    \/ FnStart
    \/ \E u \in UsageResults : FnUsage(u)
    \/ FnStore
    \/ FlightEnd

SpecSize == InitSize /\ [][NextSize]_vars

(***************************************************************************)
(* locks: the calls of the ref store as threads that take and release      *)
(* cm.mu and the record mutexes.  A call is a program of lock, unlock and  *)
(* body steps in the order of its code; the body changes the store in one  *)
(* step, at the place where the call holds all the locks it takes.  Mutex  *)
(* 0 is cm.mu, mutex n the record mutex made for record n.  The goroutine  *)
(* that finalize starts for record r runs as thread NThreads + r.          *)
(***************************************************************************)
NThreads == 2

MaxLockCalls == 3

Threads == 1..NThreads

CmMu == 0

LockOps ==
    {"Release", "Commit", "Clone", "Parent", "Size", "Mount", "Finalize",
     "SetBlob"}

IdleThread == [op |-> "", h |-> NoRef, flag |-> FALSE, prog |-> <<>>, pc |-> 0]

\* the mutex is free
Free(m) == \A l \in lockSt.locks : l[1] # m

\* the record of the parent of record r
ParentRec(r) == hnd[recs[r].parent].rec

\* Release taking sr.mu first and cm.mu second
ReleaseProgRecordFirst(r) ==
    <<<<"lock", recs[r].mu>>, <<"lock", CmMu>>, <<"body", 0>>,
      <<"unlock", CmMu>>, <<"unlock", recs[r].mu>>>>

\* immutableRef.Release and mutableRef.Release: cm.mu, then sr.mu
ReleaseProg(r) ==
    <<<<"lock", CmMu>>, <<"lock", recs[r].mu>>, <<"body", 0>>,
      <<"unlock", recs[r].mu>>, <<"unlock", CmMu>>>>

\* mutableRef.Commit: cm.mu, sr.mu, and p.mu inside parentRef
CommitProg(r) ==
    IF recs[r].parent = NoRef
    THEN ReleaseProg(r)
    ELSE <<<<"lock", CmMu>>, <<"lock", recs[r].mu>>,
           <<"lock", recs[ParentRec(r)].mu>>, <<"body", 0>>,
           <<"unlock", recs[ParentRec(r)].mu>>,
           <<"unlock", recs[r].mu>>, <<"unlock", CmMu>>>>

\* Clone, Mount, Finalize, SetBlob: sr.mu
RecordProg(r) ==
    <<<<"lock", recs[r].mu>>, <<"body", 0>>, <<"unlock", recs[r].mu>>>>

\* Parent: p.mu inside parentRef, nothing for a record without parent
ParentProg(r) ==
    IF recs[r].parent = NoRef
    THEN <<<<"body", 0>>>>
    ELSE RecordProg(ParentRec(r))

\* Size: cr.mu for the look at the metadata and again to store the size
SizeProg(r) ==
    <<<<"lock", recs[r].mu>>, <<"body", 0>>, <<"unlock", recs[r].mu>>,
      <<"lock", recs[r].mu>>, <<"unlock", recs[r].mu>>>>

Prog(op, r) ==
    CASE op = "Release" -> ReleaseProg(r)
      [] op = "Commit" -> CommitProg(r)
      [] op = "Parent" -> ParentProg(r)
      [] op = "Size" -> SizeProg(r)
      [] OTHER -> RecordProg(r)

\* what the body of a call does to the store
Effect(st, op, h, flag) ==
    LET r == st.hnd[h].rec
    IN  CASE op = "Release" ->
               [(IF st.hnd[h].kind = "imm" THEN immutableRelease(st, h)
                 ELSE mutableRelease(st, h))
                EXCEPT !.hnd[h].released = TRUE]
          [] op = "Commit" -> commit(st, h).st
          [] op = "Clone" -> NewRef(st, r, FALSE, "imm", "clone")
          [] op = "Parent" ->
               IF st.recs[r].parent = NoRef THEN st
               ELSE NewRef(st, st.hnd[st.recs[r].parent].rec, TRUE, "imm",
                           "Parent")
          [] op = "Mount" ->
               IF st.recs[r].mutable
                  \/ (st.recs[r].equalMutable # NoRef /\ flag)
               THEN st
               ELSE finalize(st, r, TRUE)
          [] op = "Finalize" -> finalize(st, r, flag)
          [] op = "SetBlob" -> SetBlob(st, h, <<"d0">>, <<"b0">>).st
          [] OTHER -> st

\* the records whose ref set the step from st to st2 writes
Touched(st, st2) ==
    {r \in 1..Len(st2.recs) :
        \/ r > Len(st.recs)
        \/ st.recs[r].refs # st2.recs[r].refs}

SetStore(st) ==
    /\ recs' = st.recs
    /\ live' = st.live
    /\ hnd' = st.hnd
    /\ leases' = st.leases
    /\ mdstore' = st.mdstore
    /\ lastUsed' = st.lastUsed
    /\ removals' = st.removals
    /\ blobmd' = st.blobmd
    /\ UNCHANGED <<cmret, sizeSt, solverVars, loadVars, regVars, pipeVars,
                   busVars>>

\* a thread calls an operation on a handle no other call is using
LockCall(t, op, h, flag) ==
    /\ lockSt.thr[t].op = ""
    /\ lockSt.calls < MaxLockCalls
    /\ h \in CallerRefs /\ ~hnd[h].released
    /\ \A u \in Threads : lockSt.thr[u].h # h
    /\ op = "Commit" => hnd[h].kind = "mut"
    /\ op \in {"Clone", "Finalize", "SetBlob"} => hnd[h].kind = "imm"
    /\ (flag /\ op \notin {"Mount", "Finalize"}) => FALSE
    /\ lockSt' = [lockSt EXCEPT
          !.thr[t] = [op |-> op, h |-> h, flag |-> flag,
                      prog |-> Prog(op, hnd[h].rec), pc |-> 1],
          !.calls = @ + 1]
    /\ SetStore(CacheState)

\* the next step of the call of thread t
LockStep(t) ==
    LET c == lockSt.thr[t]
        ins == c.prog[c.pc]
        next == IF c.pc = Len(c.prog) THEN IdleThread
                ELSE [c EXCEPT !.pc = @ + 1]
    IN  /\ c.op # ""
        /\ CASE ins[1] = "lock" ->
                  /\ Free(ins[2])
                  /\ lockSt' = [lockSt EXCEPT
                        !.thr[t] = next,
                        !.locks = @ \cup {<<ins[2], t>>}]
                  /\ SetStore(CacheState)
             [] ins[1] = "unlock" ->
                  /\ lockSt' = [lockSt EXCEPT
                        !.thr[t] = next,
                        !.locks = @ \ {<<ins[2], t>>}]
                  /\ SetStore(CacheState)
             [] OTHER ->
                  /\ lockSt' = [lockSt EXCEPT !.thr[t] = next]
                  /\ SetStore(Effect(CacheState, c.op, c.h, c.flag))

\* the goroutine of finalize takes cm.mu
GorLock(r) ==
    /\ r \in removals /\ r \notin lockSt.gor
    /\ Free(CmMu)
    /\ lockSt' = [lockSt EXCEPT !.gor = @ \cup {r},
                                !.locks = @ \cup {<<CmMu, NThreads + r>>}]
    /\ SetStore(CacheState)

\* mutable.remove(context.TODO(), true)
GorBody(r) ==
    /\ r \in removals /\ r \in lockSt.gor
    /\ UNCHANGED lockSt
    /\ SetStore([remove(CacheState, r, TRUE) EXCEPT !.removals = @ \ {r}])

\* the deferred cm.mu.Unlock()
GorUnlock(r) ==
    /\ r \notin removals /\ r \in lockSt.gor
    /\ lockSt' = [lockSt EXCEPT !.gor = @ \ {r},
                                !.locks = @ \ {<<CmMu, NThreads + r>>}]
    /\ SetStore(CacheState)

GorStep == \E r \in 1..Len(recs) : GorLock(r) \/ GorBody(r) \/ GorUnlock(r)

\* the chain of InitBlob, no call running
InitLocks ==
    /\ recs = BlobChain.recs
    /\ live = BlobChain.live
    /\ hnd = BlobChain.hnd
    /\ leases = BlobChain.leases
    /\ mdstore = BlobChain.mdstore
    /\ lastUsed = BlobChain.lastUsed
    /\ removals = {} /\ blobmd = <<>>
    /\ cmret = <<>>
    /\ sizeSt = <<>>
    /\ lockSt = [thr |-> [t \in Threads |-> IdleThread], locks |-> {},
                 calls |-> 0, gor |-> {}]
    /\ graph = Marshalled(SourceRoot)
    /\ callers = <<>> /\ jlrefs = <<>> /\ delG = {}
    /\ vmu = <<>> /\ vrefs = <<>> /\ verr = <<>> /\ invoked = <<>>
    /\ tasks = <<>> /\ muts = <<>> /\ commits = <<>> /\ relCount = <<>>
    /\ ops = <<>> /\ loaded = NotLoaded
    /\ NoGetters /\ NoPipe /\ NoBus

NextLocks ==
    \/ \E t \in Threads, op \in LockOps, h \in 1..Len(hnd), f \in BOOLEAN :
          LockCall(t, op, h, f)
    \/ \E t \in Threads : LockStep(t)
    \/ GorStep

SpecLocks == InitLocks /\ [][NextLocks]_vars

(***************************************************************************)
(* The claims.                                                             *)
(***************************************************************************)

\* C1: the source pull or worker exec of every vertex is invoked at most
\* once, whatever the number of solve calls, also for an exec vertex that
\* declares no output mount.
C1_AtMostOnce == \A v \in Vertices : invoked[v] <= 1

\* C2: once solve on a vertex has returned an error, the error of the
\* vertex never changes, its operation is not invoked again, and every
\* solve call that returns from then on returns that error, having neither
\* solved the parents nor dispatched the operation.
C2_StickyError ==
    [][\A v \in Vertices :
         /\ \A t \in DOMAIN tasks :
              (tasks[t].v = v /\ tasks[t].pc = "done" /\ tasks[t].ret # NoErr)
                 => verr[v] = tasks[t].ret
         /\ verr[v] # NoErr =>
              /\ verr'[v] = verr[v]
              /\ invoked'[v] = invoked[v]
              /\ \A t \in DOMAIN tasks' :
                   (/\ tasks'[t].v = v
                    /\ tasks'[t].pc = "done"
                    /\ (t \in DOMAIN tasks => tasks[t].pc # "done"))
                      => /\ tasks'[t].ret = verr[v]
                         /\ ~tasks'[t].spawned
                         /\ ~tasks'[t].dispatched]_vars

C2_Witness ==
    \E t \in DOMAIN tasks :
        tasks[t].pc = "done" /\ tasks[t].cached /\ tasks[t].ret # NoErr

\* C3: the operation of a vertex is dispatched only when the solve of every
\* parent has returned success; a solve call one of whose parents returned
\* an error never dispatches the operation and returns an error.
C3_ParentsFirst ==
    \A t \in DOMAIN tasks :
        /\ tasks[t].dispatched =>
              \A k \in Children(t) :
                  k \in DOMAIN tasks /\ tasks[k].pc = "done" /\ tasks[k].ret = NoErr
        /\ (\E k \in Children(t) :
               k \in DOMAIN tasks /\ tasks[k].pc = "done" /\ tasks[k].ret # NoErr)
              => /\ ~tasks[t].dispatched
                 /\ tasks[t].pc = "done" => tasks[t].ret # NoErr

C3_Witness ==
    \E t \in DOMAIN tasks :
        /\ tasks[t].pc = "done" /\ tasks[t].ret # NoErr /\ ~tasks[t].dispatched
        /\ \E k \in Children(t) : k \in DOMAIN tasks /\ tasks[k].ret # NoErr
        /\ \E k \in Children(t) : k \in DOMAIN tasks /\ tasks[k].ret = NoErr

\* C4: with every pull and exec returning, every call of Solver.Solve
\* eventually returns, for shared vertices and concurrent callers alike.
C4_EveryCallReturns == <>(\A c \in Callers : callers[c].pc = "returned")

\* two goroutines of one solve meet at the shared vertex: one waits for the
\* mutex the other holds, and the parent of each holds its own mutex
C4_Witness ==
    \E t \in DOMAIN tasks, u \in DOMAIN tasks :
        /\ Len(t) > 1 /\ Len(u) > 1 /\ t # u
        /\ tasks[t].v = tasks[u].v
        /\ tasks[t].pc = "start"
        /\ vmu[tasks[u].v] = u
        /\ vmu[tasks[Parent(t)].v] = Parent(t)
        /\ vmu[tasks[Parent(u)].v] = Parent(u)

\* the mutables cm.New handed to the run of runExecOp that task t made
OutputsOf(t) ==
    {o \in DOMAIN muts : o[2] = tasks[t].v /\ o[4] = tasks[t].n}

FailedExec(t) ==
    /\ tasks[t].pc = "done"
    /\ ~tasks[t].cached
    /\ tasks[t].ret \in {Err("cm.New", tasks[t].v),
                         Err("worker failed", tasks[t].v),
                         Err("error committing", tasks[t].v)}

\* C5 as stated: when runExecOp returns an error, every mutable output that
\* was allocated and not committed has been frozen and released.
C5_AllReleased ==
    \A t \in DOMAIN tasks :
        FailedExec(t) =>
            \A o \in OutputsOf(t) :
                muts[o].state # "committed" => muts[o].state = "released"

\* C5 as amended: when runExecOp returns an error, Freeze has been called on
\* every mutable output that was allocated and not committed, and the ref
\* Freeze returned has been released whenever Freeze succeeded; no output
\* is left as it was allocated.
C5_CleanupAttempted ==
    \A t \in DOMAIN tasks :
        FailedExec(t) =>
            \A o \in OutputsOf(t) :
                muts[o].state \in {"committed", "released", "freezeErr"}

C5_Witness ==
    \E t \in DOMAIN tasks :
        /\ FailedExec(t)
        /\ tasks[t].ret = Err("error committing", tasks[t].v)
        /\ \E o \in OutputsOf(t) : muts[o].state = "committed"
        /\ \E o \in OutputsOf(t) : muts[o].state = "released"

\* the mount of the exec that declares output index k
MountOfOutput(v, k) ==
    CHOOSE m \in {OpMounts(v)[j] : j \in 1..Len(OpMounts(v))} : m.output = k

\* C6: after a successful exec, refs[k] is the immutable committed from the
\* mutable of the mount whose declared output index is k, for every
\* declared k, and the commits were made in output-index order.
C6_RefsByOutputIndex ==
    \A v \in Vertices :
        (/\ graph.kind[v] = "exec"
         /\ vmu[v] = <<>>
         /\ verr[v] = NoErr
         /\ invoked[v] > 0)
           => /\ Len(vrefs[v]) = Len(OutputMounts(v))
              /\ \A k \in 0..(Len(OutputMounts(v)) - 1) :
                   /\ \E j \in 1..Len(OpMounts(v)) : OpMounts(v)[j].output = k
                   /\ vrefs[v][k + 1] =
                         Imm(Mut(v, MountOfOutput(v, k).dest, invoked[v]))
                   /\ commits[v][k + 1] =
                         Mut(v, MountOfOutput(v, k).dest, invoked[v])

C6_Witness ==
    \E v \in Vertices :
        /\ graph.kind[v] = "exec" /\ vmu[v] = <<>> /\ verr[v] = NoErr
        /\ Len(vrefs[v]) = 2
        /\ graph.llb[v][1].dest > graph.llb[v][2].dest


\* the vertices of the loaded graph, from the returned one along the inputs
RECURSIVE ReachV(_, _)
ReachV(heap, seen) ==
    LET next == {j \in 1..Len(heap) :
                j \in seen \/ \E i \in seen :
                    \E k \in 1..Len(heap[i].inputs) : heap[i].inputs[k] = j}
    IN  IF next = seen THEN seen ELSE ReachV(heap, next)

LoadedOK == loaded.called /\ loaded.err = NoErr

\* C7: in the graph Load returns, a digest is materialized as one vertex:
\* two vertices of the graph with the same digest are the same vertex, and
\* every input edge ends in the vertex of the digest it names.
C7_OneVertexPerDigest ==
    LoadedOK =>
        LET R == ReachV(loaded.heap, {loaded.vtx})
        IN  /\ \A i \in R, j \in R :
                  loaded.heap[i].dgst = loaded.heap[j].dgst => i = j
            /\ \A i \in R :
                  /\ Len(loaded.heap[i].inputs) = Len(loaded.heap[i].op.inputs)
                  /\ \A k \in 1..Len(loaded.heap[i].inputs) :
                        loaded.heap[loaded.heap[i].inputs[k]].dgst =
                           loaded.heap[i].op.inputs[k]

\* a vertex of the loaded graph is the input of two different vertices
C7_Witness ==
    /\ LoadedOK
    /\ LET R == ReachV(loaded.heap, {loaded.vtx})
       IN  \E i \in R, j \in R :
               /\ i # j
               /\ \E k \in 1..Len(loaded.heap[i].inputs) :
                    \E l \in 1..Len(loaded.heap[j].inputs) :
                        loaded.heap[i].inputs[k] = loaded.heap[j].inputs[l]

\* the digests of the blobs submitted before the last one
Submitted(blobs) == {FromBytes(blobs[i]) : i \in 1..(Len(blobs) - 1)}

\* the digests of the ops reachable from the terminal op through inputs
\* that resolve to a submitted non-terminal blob
RECURSIVE ReachD(_, _)
ReachD(blobs, seen) ==
    LET next == seen \cup {d \in Submitted(blobs) :
                              \E e \in seen :
                                  \E k \in 1..Len(Blobs[e].inputs) :
                                      Blobs[e].inputs[k] = d}
    IN  IF next = seen THEN seen ELSE ReachD(blobs, next)

\* some op reachable from the terminal op names an input that is not the
\* digest of a submitted non-terminal blob
MissingInput(blobs) ==
    \E e \in ReachD(blobs, {FromBytes(blobs[Len(blobs)])}) :
        \E k \in 1..Len(Blobs[e].inputs) :
            Blobs[e].inputs[k] \notin Submitted(blobs)

AllParse(blobs) == \A i \in 1..Len(blobs) : Unmarshal(blobs[i]).err = NoErr

\* C8: for a submission of ops, Load fails with the error that names a
\* missing input, and returns no vertex, whenever some op reachable from
\* the terminal op names an input that is not the digest of a non-terminal
\* blob of the submission.
C8_MissingInputFails ==
    (loaded.called /\ ops # <<>> /\ AllParse(ops) /\ MissingInput(ops))
        => /\ loaded.vtx = NoVertex
           /\ loaded.err[1] = "failed to find"
           /\ loaded.err[2] \notin Submitted(ops)

\* the input is missing below the terminal op, and an input resolved before
C8_Witness ==
    /\ loaded.called /\ AllParse(ops) /\ Len(ops) = 3
    /\ FromBytes(ops[3]) = 4
    /\ Submitted(ops) = {2, 3}
    /\ loaded.err = <<"failed to find", 1>>

\* C9: the vertex that Solve registers and solves is the single input of
\* the submitted root only when the root has exactly one input and no
\* operation of its own; any other root is registered and solved itself.
C9_UnwrapOnlyReturn ==
    /\ \A c \in Callers :
          <<c>> \in DOMAIN tasks =>
              tasks[<<c>>].v = UnwrapReturnOnly(graph.root)
    /\ \A id \in DOMAIN jlrefs : jlrefs[id].g = UnwrapReturnOnly(graph.root)

\* C10: jobList.new with an id that is registered returns an error, leaves
\* the registry as it is and starts no deletion goroutine.
C10_DuplicateNew ==
    [][\A c \in Callers :
         (/\ callers[c].pc = "idle"
          /\ callers'[c].pc # "idle"
          /\ callers'[c].id \in DOMAIN jlrefs)
            => /\ callers'[c].pc = "returned"
               /\ callers'[c].ret = ErrExists
               /\ jlrefs' = jlrefs
               /\ delG' = delG]_vars

C10_Witness ==
    \E c \in Callers :
        /\ callers[c].pc = "returned"
        /\ callers[c].ret = ErrExists
        /\ callers[c].id \in DOMAIN jlrefs
        /\ jlrefs[callers[c].id].ctx # c
        /\ \A d \in delG : d.ctx # c

\* C11: a registered job stays in the registry until the context it was
\* created with is cancelled; after the cancellation the entry is eventually
\* deleted, and the id can then be registered again.  (A cancelled context
\* stays cancelled, so "again and again no entry of a cancelled context is
\* left" says that each such entry is deleted.)
C11_JobLifetime ==
    /\ [][\A id \in DOMAIN jlrefs :
            /\ id \notin DOMAIN jlrefs' => callers[jlrefs[id].ctx].ctxDone
            /\ id \in DOMAIN jlrefs' => jlrefs'[id] = jlrefs[id]]_vars
    /\ [][\A c \in Callers :
            (/\ callers[c].pc = "idle" /\ callers'[c].pc # "idle"
             /\ callers'[c].id \notin DOMAIN jlrefs)
                => (/\ callers'[c].id \in DOMAIN jlrefs'
                    /\ jlrefs'[callers'[c].id].ctx = c)]_vars
    /\ []<>(\A id \in DOMAIN jlrefs : ~callers[jlrefs[id].ctx].ctxDone)

\* a job was registered, cancelled and deleted, and its id is registered
\* again by another Solve
C11_Witness ==
    \E c1, c2 \in Callers :
        /\ c1 # c2
        /\ callers[c1].pc = "returned" /\ callers[c1].ret = NoErr
        /\ callers[c2].pc = "solving" /\ callers[c2].id = callers[c1].id
        /\ callers[c2].id \in DOMAIN jlrefs
        /\ jlrefs[callers[c2].id].ctx = c2

\* C12 as stated: a get(id) call that was under way, its timeout not fired,
\* when new(id) succeeded returns that job.
C12_EarlyGetReturnsJob ==
    \A s \in Getters :
        (getters[s].pc = "returned" /\ getters[s].early)
            => (getters[s].ret = NoErr /\ getters[s].job.g # NoVertex)

\* C12, amended: a get(id) call is never blocked in Wait while id is in the
\* registry (no registration broadcast is missed by a call that checked the
\* map and is about to wait), and a call that returns a job returns the one
\* registered under its id.
C12_BroadcastNeverMissed ==
    [][/\ \A s \in notify' : getters'[s].id \notin DOMAIN jlrefs'
       /\ \A s \in Getters :
            (getters[s].pc # "returned" /\ getters'[s].pc = "returned"
                /\ getters'[s].ret = NoErr)
                => (/\ getters[s].id \in DOMAIN jlrefs
                    /\ getters'[s].job = jlrefs[getters[s].id])]_vars

\* a call that was under way when its id was registered has returned the job
C12_Witness ==
    \E s \in Getters :
        /\ getters[s].pc = "returned" /\ getters[s].early
        /\ getters[s].ret = NoErr /\ getters[s].job.g # NoVertex

\* C13: when id is never registered, a get(id) call whose timeout has
\* fired returns the not-found error; it never blocks forever.
C13_GetReturnsAfterTimeout ==
    \A s \in Getters, id \in JobIds :
        [](id \notin DOMAIN jlrefs)
            => ((getters[s].id = id /\ getters[s].timer \in {"fired", "done"})
                    ~> (getters[s].pc = "returned"
                        /\ getters[s].ret = ErrNoSuchJob))

\* the vertices reachable from g along inputs
RECURSIVE ReachableFrom(_)
ReachableFrom(g) ==
    {g} \cup UNION {ReachableFrom(Inputs(g)[i]) : i \in 1..Len(Inputs(g))}

InitialSent == {i \in 1..Len(pipeSt.sent) : pipeSt.sent[i].kind = "initial"}

\* C14: the initial walk of pipe emits one status message for each vertex
\* digest reachable from the job's root, never two for one digest, and all
\* of them before any streamed progress event.
C14_InitialWalk ==
    /\ \A i, j \in InitialSent :
          i # j => pipeSt.sent[i].v # pipeSt.sent[j].v
    /\ \A i, j \in 1..Len(pipeSt.sent) :
          (i < j /\ j \in InitialSent) => i \in InitialSent
    /\ \A i \in InitialSent : pipeSt.sent[i].v \in ReachableFrom(jlrefs["j1"].g)
    /\ (\/ pipeSt.pc = "read"
        \/ pipeSt.pc = "returned" /\ pipeSt.ret = NoErr
        \/ InitialSent # 1..Len(pipeSt.sent))
          => {pipeSt.sent[i].v : i \in InitialSent}
                = ReachableFrom(jlrefs["j1"].g)

\* the walk of the diamond is over (its shared source is reached along two
\* paths) and a streamed event has followed
C14_Witness ==
    /\ graph = Marshalled(Diamond)
    /\ Cardinality(InitialSent) = 4
    /\ Len(pipeSt.sent) > 4

\* C15: after the progress bus is closed, whatever the writers did, the
\* reader eventually receives the end of the stream; Read never blocks
\* forever after the close.
C15_ReadEndsAfterClose == busCtx.done ~> reader.pc = "eos"

\* C16: Done sets the writer's done flag and publishes its last event with
\* done = true, also for a writer that has never written; after that every
\* Write returns an error and leaves the latest event unchanged.
C16_DoneIsTerminal ==
    [][\A w \in Writers :
        /\ DoneCall(w) =>
              /\ writers'[w].ret = NoErr
              /\ writers'[w].done
              /\ writers'[w].lastP.done
              /\ writers'[w].lastP.msg = writers[w].lastP.msg
        /\ ((\E msg \in Messages, dn \in BOOLEAN : WriteCall(w, msg, dn))
                /\ writers[w].done) =>
              /\ writers'[w].ret # NoErr
              /\ writers'[w].lastP = writers[w].lastP]_vars

\* C17: while a handle a caller was given has not been released, its record
\* is in the live map and neither its metadata nor its lease has been
\* deleted; releasing a handle returns no error, also for two handles on
\* one immutable record.
C17_HeldRecordStays ==
    /\ \A h \in CallerRefs :
          ~hnd[h].released =>
              /\ hnd[h].rec \in live
              /\ hnd[h].rec \in mdstore
              /\ recs[hnd[h].rec].mutable => hnd[h].rec \in leases
    /\ cmret.op = "Release" => cmret.err = NoErr

\* the mutable handles that were committed and released, together with the
\* handle commit returned, their record not being kept by the retain policy
\* and having a parent
ChainsReleased ==
    {m \in CallerRefs :
        /\ hnd[m].kind = "mut" /\ hnd[m].released
        /\ ~recs[hnd[m].rec].retain
        /\ recs[hnd[m].rec].parent # NoRef
        /\ recs[hnd[m].rec].equalImmutable # NoRef
        /\ hnd[recs[hnd[m].rec].equalImmutable].released}

C19_LastUsedOnRelease ==
    [][\A h \in 1..Len(hnd) :
        (hnd[h].kind = "imm" /\ ReleaseCall(h)) =>
            LET r == hnd[h].rec
                stamps == lastUsed'[r] - lastUsed[r]
                left == recs[r].refs \ {h}
            IN  /\ stamps \in {0, 1}
                /\ hnd[h].via = "clone" => stamps = 0
                /\ hnd[h].via \in {"get", "commit"} =>
                      (stamps = 1 <=>
                          \A x \in left : ~hnd[x].triggerLastUsed)]_vars

\* a cloned handle was released as the last handle of a record that an
\* ordinary handle had stamped before
C19_Witness ==
    /\ cmret.op = "Release"
    /\ hnd[cmret.h].via = "clone"
    /\ recs[hnd[cmret.h].rec].refs = {}
    /\ lastUsed[hnd[cmret.h].rec] = 1

LeftIntact(h) ==
    LET r == hnd[h].rec
    IN  /\ live' = live /\ leases' = leases /\ mdstore' = mdstore
        /\ recs' = [recs EXCEPT ![r].refs = @ \ {h}]
        /\ \A x \in 1..Len(lastUsed) :
              lastUsed'[x] = lastUsed[x] + (IF x = r /\ hnd[h].triggerLastUsed
                                            THEN 1 ELSE 0)

\* the record of handle h is removed by a release of h, its hold on its
\* parent released and its lease deleted
Removed(h) ==
    LET r == hnd[h].rec
        p == recs[r].parent
    IN  /\ r \notin live' /\ r \notin leases' /\ r \notin mdstore'
        /\ p # NoRef => p \notin recs'[hnd[p].rec].refs

RetainedSibling(h) ==
    LET ei == recs[hnd[h].rec].equalImmutable
    IN  ei # NoRef /\ recs[hnd[ei].rec].retain

ParentLacksChain(h) ==
    LET p == recs[hnd[h].rec].parent
    IN  /\ p # NoRef
        /\ \/ Info(CacheState, hnd[p].rec).chainID = NoDigest
           \/ Info(CacheState, hnd[p].rec).blobChainID = NoDigest

\* C22 (as stated): SetBlob on a record whose chain id is set changes none
\* of chain id, blob chain id, diff id and blob and returns no error;
\* SetBlob on a record whose parent has an empty chain id or blob chain id
\* returns an error and leaves the record's descriptors unset.
C22_SetBlob ==
    [][\A h \in 1..Len(hnd), d \in DiffIDs, b \in BlobInputs :
        SetBlobCall(h, d, b) =>
            /\ Info(CacheState, hnd[h].rec).chainID # NoDigest =>
                  /\ blobmd' = blobmd
                  /\ cmret'.err = NoErr
            /\ ParentLacksChain(h) =>
                  /\ cmret'.err # NoErr
                  /\ hnd[h].rec \notin DOMAIN blobmd']_vars

\* C22 (amended): as stated, but on a record whose chain id is set the
\* call returns no error only for a blob the content store knows, and the
\* error of the content store otherwise.
C22_SetBlobKnownBlob ==
    [][\A h \in 1..Len(hnd), d \in DiffIDs, b \in BlobInputs :
        SetBlobCall(h, d, b) =>
            /\ Info(CacheState, hnd[h].rec).chainID # NoDigest =>
                  /\ blobmd' = blobmd
                  /\ cmret'.err = IF b \in KnownBlobs THEN NoErr
                                  ELSE ErrBlobNotFound
            /\ ParentLacksChain(h) =>
                  /\ cmret'.err # NoErr
                  /\ hnd[h].rec \notin DOMAIN blobmd']_vars

\* both halves have happened: the child's SetBlob failed on a parent
\* without chain ids, and later a SetBlob on the child, its chain id set,
\* returned no error
C22_Witness ==
    /\ cmret.op = "SetBlob"
    /\ cmret.err = NoErr
    /\ recs[hnd[cmret.h].rec].parent # NoRef
    /\ hnd[cmret.h].rec \in DOMAIN blobmd
    /\ blobmd[hnd[cmret.h].rec].chainID =
          ChainID(blobmd[1].chainID, blobmd[hnd[cmret.h].rec].diffID)

\* C23: a Read that returns an event returns, for one of the writers, the
\* event that writer stored last, and that event is later in the writer's
\* order of writes than the event this reader returned for it before (its
\* first is later than none): no event is returned twice, and the events
\* written in between are never returned.
C23_ReadLatest ==
    [][(ReadScan /\ reader'.pc = "idle") =>
        \E i \in 1..Len(handles) :
            LET w == handles[i]
            IN  /\ reader'.out = writers[w].lastP
                /\ reader'.out # NilP
                /\ reader'.out.n = writers[w].n
                /\ reader'.out.n > shLast[w].n
                /\ shLast' = [shLast EXCEPT ![w] = reader'.out]]_vars

\* a Read has returned the second event of a writer whose first event the
\* reader never returned
C23_Witness ==
    /\ reader.pc = "idle"
    /\ reader.out.n = 2
    /\ reader.prev = NilP

\* C24: at no time is more than one usage query of the record in flight;
\* the callers that share a run of the function all return what that run
\* returned; a Size call made when the metadata holds a size returns that
\* size, and no usage query is made between the call and its return.
C24_SizeSingleFlight ==
    /\ [](sizeSt.inflight <= 1)
    /\ [][FlightEnd =>
            \A t \in sizeSt.fl.members :
                /\ sizeSt'.thr[t].ret = sizeSt.fl.res
                /\ sizeSt.thr[t].saw # sizeUnknown =>
                      /\ sizeSt'.thr[t].ret =
                            [s |-> sizeSt.thr[t].saw, err |-> NoErr]
                      /\ sizeSt.queries = sizeSt.thr[t].q0]_vars

\* two callers shared one run that asked the snapshotter, and a later
\* call got the stored size with no further query
C24_Witness ==
    /\ sizeSt.queries = 1
    /\ sizeSt.fl = NoFlight
    /\ sizeSt.size = 8
    /\ \A t \in Sizers : sizeSt.thr[t].ret = [s |-> 8, err |-> NoErr]
    /\ \E t \in Sizers : sizeSt.thr[t].n = 2 /\ sizeSt.thr[t].saw = 8
    /\ \E t \in Sizers : sizeSt.thr[t].n = 1 /\ sizeSt.thr[t].q0 = 1
                         /\ sizeSt.thr[t].saw = sizeUnknown

\* C25 (as stated): a record that is marked dead is not in the live map.
C25_DeadNotLive == \A r \in 1..Len(recs) : recs[r].dead => r \notin live

\* C25 (amended): a record that is marked dead is not in the live map, or
\* the goroutine that finalize started to remove it has not run yet.
C25_DeadLeavesLive ==
    \A r \in 1..Len(recs) : recs[r].dead => (r \notin live \/ r \in removals)

\* finalize marked a mutable dead and its goroutine has removed it
C25_Witness ==
    \E r \in 1..Len(recs) :
        /\ recs[r].dead /\ recs[r].mutable
        /\ r \notin live /\ r \notin removals
        /\ \E h \in CallerRefs : hnd[h].rec = r /\ ~hnd[h].released

\* the mutexes thread t holds
Held(t) == {l[1] : l \in {x \in lockSt.locks : x[2] = t}}

\* C26: a step that writes the ref set of a record is taken by a thread
\* that holds the mutex of that record.
C26_RefsUnderMutex ==
    /\ \A t \in Threads :
          LET c == lockSt.thr[t]
          IN  (c.op # "" /\ c.prog[c.pc][1] = "body") =>
                  \A r \in Touched(CacheState,
                                   Effect(CacheState, c.op, c.h, c.flag)) :
                      Effect(CacheState, c.op, c.h, c.flag).recs[r].mu
                          \in Held(t)
    /\ \A g \in lockSt.gor \cap removals :
          \A r \in Touched(CacheState, remove(CacheState, g, TRUE)) :
              recs[r].mu \in Held(NThreads + g)

\* no call is running and no removal is pending
Quiet ==
    /\ \A t \in Threads : lockSt.thr[t].op = ""
    /\ removals = {} /\ lockSt.gor = {} /\ lockSt.locks = {}

\* the call of thread t is not waiting for a mutex another thread holds
CanStep(t) ==
    /\ lockSt.thr[t].op # ""
    /\ lockSt.thr[t].prog[lockSt.thr[t].pc][1] = "lock"
          => Free(lockSt.thr[t].prog[lockSt.thr[t].pc][2])

\* a goroutine of finalize is running, or one can take cm.mu
GorCanStep == lockSt.gor # {} \/ (removals # {} /\ Free(CmMu))

\* C27: a thread that takes cm.mu holds no record mutex at that moment,
\* and the calls never block each other: while a call or a removal is
\* under way, one of them can take its next step.
C27_LockOrder ==
    /\ [][\A l \in lockSt'.locks \ lockSt.locks :
             l[1] = CmMu => \A x \in lockSt.locks : x[2] # l[2]]_vars
    /\ [](Quiet \/ GorCanStep \/ \E t \in Threads : CanStep(t))

\* Commit holds cm.mu and the mutex of its record and waits for the mutex
\* of the parent, which a call on the parent holds
C27_Witness ==
    \E t, u \in Threads :
        /\ t # u
        /\ lockSt.thr[t].op = "Commit"
        /\ {CmMu, recs[hnd[lockSt.thr[t].h].rec].mu} \subseteq Held(t)
        /\ lockSt.thr[t].prog[lockSt.thr[t].pc][1] = "lock"
        /\ lockSt.thr[t].prog[lockSt.thr[t].pc][2] \in Held(u)
        /\ lockSt.thr[u].op \in {"Clone", "Parent"}

\* C28: while the source pull or worker exec of a call runs, the call has
\* published one event, keyed by its vertex and with the started stamp set;
\* once it has returned, a second event on the same key follows it, with
\* the completed stamp set, whatever the pull or exec returned.
C28_StartedCompleted ==
    \A t \in DOMAIN tasks :
        LET e == tasks[t].events
            v == tasks[t].v
        IN  /\ tasks[t].pc \in {"pull", "exec"} =>
                  /\ Len(e) = 1
                  /\ e[1].key = v /\ e[1].started > 0
            /\ (tasks[t].pc = "done" /\ tasks[t].dispatched) =>
                  /\ Len(e) = 2
                  /\ e[1].key = v /\ e[1].started > 0
                  /\ e[2].key = v /\ e[2].completed = e[1].started
                  /\ e[2].started = e[1].started

\* a worker exec has failed and another has succeeded
C28_Witness ==
    /\ \E t \in DOMAIN tasks :
          /\ tasks[t].pc = "done" /\ tasks[t].dispatched
          /\ tasks[t].ret[1] = "worker failed"
    /\ \E t \in DOMAIN tasks :
          /\ tasks[t].pc = "done" /\ tasks[t].dispatched
          /\ tasks[t].ret = NoErr
          /\ graph.kind[tasks[t].v] = "exec"

\* the vertices opVertex.release visits from g, g included
RECURSIVE Below(_)
Below(g) ==
    {g} \cup UNION {Below(Inputs(g)[i]) : i \in 1..Len(Inputs(g))}

\* C29: once a call of Solver.Solve has returned without error, every ref
\* held by a vertex under the vertex it solved has been released once, no
\* more and no less.
C29_ReleasedOnce ==
    \A c \in Callers :
        (callers[c].pc = "returned" /\ callers[c].ret = NoErr) =>
            \A v \in Below(callers[c].g) :
                \A i \in 1..Len(vrefs[v]) :
                    /\ vrefs[v][i] \in DOMAIN relCount
                    /\ relCount[vrefs[v][i]] = 1

\* C30: a vertex nobody is solving does not hold both an error and refs.
C30_ErrorOrRefs ==
    \A v \in Vertices :
        vmu[v] = <<>> => ~(verr[v] # NoErr /\ Len(vrefs[v]) > 0)

\* the mutable records with a parent that a release has removed
ReleasedChildren ==
    {r \in 1..Len(recs) :
        /\ recs[r].mutable /\ ~recs[r].retain
        /\ recs[r].parent # NoRef
        /\ r \notin live}

\* C31: when a release has removed a mutable record that has a parent, the
\* release of its parent handle has run once.
C31_ParentReleasedOnce ==
    \A r \in ReleasedChildren : hnd[recs[r].parent].relRuns = 1

=============================================================================
